---- MODULE Spec2Model ----
(***************************************************************************)
(* MealieMate plugin lifecycle and MQTT control plane.                     *)
(*                                                                         *)
(* PluginManager (core/plugin_manager.py), MqttMessageHandler              *)
(* (core/message_handler.py) and the part of MealieMateApp.shutdown        *)
(* (core/app.py) that stops plugins, as cooperatively scheduled asyncio    *)
(* tasks.  A step of the model is the code one task runs between two       *)
(* suspension points.  The log helpers info/warning/error/success of       *)
(* utils/ha_mqtt.py return before their first await (log_to_ha=False), so  *)
(* they never suspend; client.publish may suspend, so every                *)
(* set_switch_state / reset_sensor / update_progress is a point where the  *)
(* other tasks may run.                                                    *)
(*                                                                         *)
(* Strings that the code slices or compares by prefix are sequences of     *)
(* one-character strings.                                                  *)
(***************************************************************************)
EXTENDS Integers, Sequences, FiniteSets, TLC

VARIABLES
    running_tasks,             \* PluginManager._running_tasks: plugin_id -> run id
    running_plugin_instances,  \* PluginManager._running_plugin_instances: plugin_id -> run id
    plugin_configs,            \* PluginManager._plugin_configs: plugin_id -> (attr -> value)
    runs,                      \* run id -> the instance built by start_plugin and its supervised task
    frame,                     \* caller -> position inside start_plugin / stop_plugin / the switch handler
    cur,                       \* the process_message call in progress (processor task)
    last,                      \* the last finished process_message call
    shutdown_todo,             \* MealieMateApp.shutdown: snapshot of running plugins still to stop
    switch_state,              \* last state published on each plugin's main switch state topic
    handled,                   \* number of control messages taken by the processor
    app                        \* MealieMateApp: the main task, the background tasks, the queue

vars == <<running_tasks, running_plugin_instances, plugin_configs, runs, frame,
          cur, last, shutdown_todo, switch_state, handled, app>>

(* everything but the call frames and the application *)
manager == <<running_tasks, running_plugin_instances, plugin_configs, runs, cur, last,
             shutdown_todo, switch_state, handled>>

----------------------------------------------------------------------------
(* Bounds *)

MaxRuns == 3       \* successful start_plugin calls in one behaviour
MaxMessages == 3   \* control messages handled in one behaviour
MaxWait == 2       \* time units a stop_plugin call is observed waiting

MaxItems == 2      \* suggestions or batches a plugin presents in one run
TimeStep == 1200   \* seconds between two observations of a waiting plugin
MaxRawLen == 4     \* characters of a raw identifier given to the resolution
MaxRegistry == 3   \* plugins of a registry given to the resolution
MonthDays == 3     \* days of a month of the clock
MaxRollovers == 3  \* midnights that pass in one behaviour

(* asyncio.wait_for(task, timeout=1) in stop_plugin *)
StopTimeout == 1

(* the interval of the heartbeat and its back-off after an error, in s *)
HeartbeatInterval == 3600
HeartbeatBackoff == 60

(* asyncio.wait_for(self._user_decision_received.wait(), timeout=3600) *)
DecisionTimeout == 3600

----------------------------------------------------------------------------
(* Strings *)

None == <<"<None>">>

neapolitan_pizza == <<"n","e","a","p","o","l","i","t","a","n","_","p","i","z","z","a">>
shopping_list_generator ==
    <<"s","h","o","p","p","i","n","g","_","l","i","s","t","_",
      "g","e","n","e","r","a","t","o","r">>
total_time == <<"t","o","t","a","l","_","t","i","m","e">>
salt_percent == <<"s","a","l","t","_","p","e","r","c","e","n","t">>
list_length == <<"l","i","s","t","_","l","e","n","g","t","h">>
include_today == <<"i","n","c","l","u","d","e","_","t","o","d","a","y">>
continue_to_next_batch ==
    <<"c","o","n","t","i","n","u","e","_","t","o","_","n","e","x","t","_",
      "b","a","t","c","h">>
progress == <<"p","r","o","g","r","e","s","s">>
feedback == <<"f","e","e","d","b","a","c","k">>
current_batch == <<"c","u","r","r","e","n","t","_","b","a","t","c","h">>
shopping_list_items ==
    <<"s","h","o","p","p","i","n","g","_","l","i","s","t","_","i","t","e","m","s">>
mealiemate_ == <<"m","e","a","l","i","e","m","a","t","e","_">>
thermostat == <<"t","h","e","r","m","o","s","t","a","t">>
ingredient_merger ==
    <<"i","n","g","r","e","d","i","e","n","t","_","m","e","r","g","e","r">>
accept_button == <<"a","c","c","e","p","t","_","b","u","t","t","o","n">>
reject_button == <<"r","e","j","e","c","t","_","b","u","t","t","o","n">>
user_accepted == <<"u","s","e","r","_","a","c","c","e","p","t","e","d">>
batch_size == <<"b","a","t","c","h","_","s","i","z","e">>
switch == <<"s","w","i","t","c","h">>
number == <<"n","u","m","b","e","r">>
text == <<"t","e","x","t">>
button == <<"b","u","t","t","o","n">>
homeassistant == <<"h","o","m","e","a","s","s","i","s","t","a","n","t">>
set == <<"s","e","t">>
command == <<"c","o","m","m","a","n","d">>
ON == <<"O","N">>
OFF == <<"O","F","F">>
PRESS == <<"P","R","E","S","S">>

(* str.startswith *)
StartsWith(s, p) == Len(s) >= Len(p) /\ SubSeq(s, 1, Len(p)) = p

(* the operator `in` on two strings *)
Contains(s, w) ==
    \E i \in 1..(Len(s) + 1) : i + Len(w) - 1 <= Len(s) /\ SubSeq(s, i, i + Len(w) - 1) = w

(* f"_{entity_id}" *)
AttrName(entity_id) == <<"_">> \o entity_id

----------------------------------------------------------------------------
(* Values held by instance attributes and by the persisted config.  Every  *)
(* value is a record of the same shape: an int n is IntV(n), the float     *)
(* n / 10^s is FloatV(n, s) with no trailing zero digit, a bool is         *)
(* BoolV(b), a str keeps its characters in x.                              *)

IntV(n) == [t |-> "int", n |-> n, s |-> 0, x |-> <<>>]
FloatV(n, s) == [t |-> "float", n |-> n, s |-> s, x |-> <<>>]
BoolV(b) == [t |-> "bool", n |-> IF b THEN 1 ELSE 0, s |-> 0, x |-> <<>>]
StrV(x) == [t |-> "str", n |-> 0, s |-> 0, x |-> x]

Digits == {"0","1","2","3","4","5","6","7","8","9"}

DigitVal(c) ==
    CASE c = "0" -> 0 [] c = "1" -> 1 [] c = "2" -> 2 [] c = "3" -> 3 [] c = "4" -> 4
      [] c = "5" -> 5 [] c = "6" -> 6 [] c = "7" -> 7 [] c = "8" -> 8 [] c = "9" -> 9

IsDigits(s) == Len(s) > 0 /\ \A i \in 1..Len(s) : s[i] \in Digits

RECURSIVE DigitsVal(_)
DigitsVal(s) ==
    IF Len(s) = 0 THEN 0
    ELSE 10 * DigitsVal(SubSeq(s, 1, Len(s) - 1)) + DigitVal(s[Len(s)])

Unsigned(s) == IF Len(s) > 0 /\ s[1] \in {"-", "+"} THEN SubSeq(s, 2, Len(s)) ELSE s
Sign(s) == IF Len(s) > 0 /\ s[1] = "-" THEN -1 ELSE 1

(* int(payload): an optional sign and decimal digits; anything else is a   *)
(* ValueError.  (Surrounding blanks and digit-group underscores, which     *)
(* int() also accepts, are outside the payloads of the model.)             *)
IntParses(payload) == IsDigits(Unsigned(payload))
IntOf(payload) == IntV(Sign(payload) * DigitsVal(Unsigned(payload)))

Dots(s) == {i \in 1..Len(s) : s[i] = "."}
Undotted(s) == IF Dots(s) = {} THEN s
               ELSE LET i == CHOOSE j \in Dots(s) : TRUE
                    IN SubSeq(s, 1, i - 1) \o SubSeq(s, i + 1, Len(s))
Scale(s) == IF Dots(s) = {} THEN 0 ELSE Len(s) - (CHOOSE j \in Dots(s) : TRUE)

RECURSIVE Normalized(_, _)
Normalized(n, s) ==
    IF s > 0 /\ n % 10 = 0 THEN Normalized(n \div 10, s - 1) ELSE FloatV(n, s)

(* float(payload): an optional sign, decimal digits and at most one point, *)
(* with a digit on at least one side of it.  (Exponents, inf and nan are   *)
(* outside the payloads of the model.)                                     *)
FloatParses(payload) ==
    /\ Cardinality(Dots(Unsigned(payload))) <= 1
    /\ IsDigits(Undotted(Unsigned(payload)))
FloatOf(payload) ==
    LET u == Unsigned(payload)
    IN Normalized(Sign(payload) * DigitsVal(Undotted(u)), Scale(u))

----------------------------------------------------------------------------
(* The plugin classes of the model: plugins/ingredient_merger.py,          *)
(* plugins/neapolitan_pizza.py and plugins/shopping_list_generator.py,     *)
(* with the attributes and entities the control messages of the model      *)
(* address.                                                                *)

(* PluginRegistry._plugins, in registration order (dict order) *)
Registry == <<ingredient_merger, neapolitan_pizza, shopping_list_generator>>

PluginIds == {Registry[i] : i \in 1..Len(Registry)}

(* get_mqtt_entities()["numbers"]: the declared id and type of each number *)
Numbers(p) ==
    IF p = neapolitan_pizza
    THEN {[id |-> total_time, type |-> "int"], [id |-> salt_percent, type |-> "float"]}
    ELSE IF p = shopping_list_generator
    THEN {[id |-> list_length, type |-> "int"]}
    ELSE {}

(* get_mqtt_entities()["switches"]: switch_id (the dict key) and declared id *)
Switches(p) ==
    IF p = shopping_list_generator
    THEN {[switch_id |-> include_today, id |-> include_today]}
    ELSE {}

(* "progress" in get_mqtt_entities()["sensors"] *)
HasProgress(p) == p \in {ingredient_merger, neapolitan_pizza, shopping_list_generator}

(* the reset_sensors property; a class without it has nothing to reset *)
ResetSensors(p) ==
    IF p = shopping_list_generator
    THEN <<feedback, current_batch, shopping_list_items>>
    ELSE <<>>

(* The attributes __init__ sets, with their constructor defaults:          *)
(* Container.inject(plugin_cls) returns an instance with these.  All three *)
(* services are registered by MealieMateApp.initialize, so inject finds    *)
(* every dependency.                                                       *)
Inject(p) ==
    IF p = neapolitan_pizza
    THEN (AttrName(total_time) :> IntV(26)) @@ (AttrName(salt_percent) :> FloatV(28, 1))
    ELSE IF p = shopping_list_generator
    THEN (AttrName(list_length) :> IntV(8)) @@ (AttrName(include_today) :> BoolV(FALSE))
    ELSE (AttrName(batch_size) :> IntV(50)) @@ (AttrName(user_accepted) :> BoolV(FALSE))

HasAttr(attrs, a) == a \in DOMAIN attrs

----------------------------------------------------------------------------
(* Control messages and their routing (MqttMessageHandler.process_message) *)

Slash == <<"/">>

(* homeassistant/<kind>/<raw_id>/<tail>: the shape of every topic the      *)
(* listener subscribes to                                                  *)
Topic(kind, raw_id, tail) ==
    homeassistant \o Slash \o kind \o Slash \o raw_id \o Slash \o tail

Msg(topic, payload) == [topic |-> topic, payload |-> payload]

(* topic.split("/") *)
RECURSIVE Split(_)
Split(s) ==
    IF \A i \in 1..Len(s) : s[i] # "/" THEN <<s>>
    ELSE LET i == CHOOSE j \in 1..Len(s) : s[j] = "/" /\ \A k \in 1..(j - 1) : s[k] # "/"
         IN <<SubSeq(s, 1, i - 1)>> \o Split(SubSeq(s, i + 1, Len(s)))

(* raw_id: topic.split("/")[-2] without a leading "mealiemate_" *)
RawId(topic) ==
    LET segs == Split(topic)
        seg == segs[Len(segs) - 1]
    IN IF StartsWith(seg, mealiemate_) THEN SubSeq(seg, Len(mealiemate_) + 1, Len(seg))
       ELSE seg

(* the candidate loop: the first id of the registry, in registry order,    *)
(* that raw_id starts with                                                 *)
Candidates(raw_id) == {i \in 1..Len(Registry) : StartsWith(raw_id, Registry[i])}

(* a resolution that accepts only a raw_id equal to a registered id *)
ResolvePluginExact(raw_id) == IF raw_id \in PluginIds THEN raw_id ELSE None

ResolvePlugin(raw_id) ==
    IF Candidates(raw_id) = {} THEN None
    ELSE Registry[CHOOSE i \in Candidates(raw_id) : \A j \in Candidates(raw_id) : i <= j]

(* raw_id[len(candidate_id) + 1:], or "" when nothing follows the id *)
ResolveEntity(raw_id) ==
    LET p == ResolvePlugin(raw_id)
    IN IF p = None THEN <<>>
       ELSE IF Len(raw_id) > Len(p) THEN SubSeq(raw_id, Len(p) + 2, Len(raw_id))
       ELSE <<>>

(* The candidate loop of process_message (lines 61-69) over any registry:  *)
(* the ids are tried in registry order from position i and the first one   *)
(* raw_id starts with ends the loop.                                       *)

(* the loop without its break and with the longest match kept *)
RECURSIVE FirstMatchLongest(_, _, _)
FirstMatchLongest(registry, raw_id, i) ==
    IF i > Len(registry) THEN None
    ELSE LET rest == FirstMatchLongest(registry, raw_id, i + 1)
         IN IF StartsWith(raw_id, registry[i]) /\ (rest = None \/ Len(registry[i]) >= Len(rest))
            THEN registry[i]
            ELSE rest

RECURSIVE FirstMatch(_, _, _)
FirstMatch(registry, raw_id, i) ==
    IF i > Len(registry) THEN None
    ELSE IF StartsWith(raw_id, registry[i]) THEN registry[i]
    ELSE FirstMatch(registry, raw_id, i + 1)

(* plugin_id and entity_id as lines 58-69 leave them *)
Resolved(registry, raw_id) ==
    LET p == FirstMatch(registry, raw_id, 1)
    IN [plugin |-> p,
        entity |-> IF p # None /\ Len(raw_id) > Len(p)
                   THEN SubSeq(raw_id, Len(p) + 2, Len(raw_id))
                   ELSE <<>>]

(* the if/elif chain on substrings of the topic *)
Kind(topic, payload) ==
    IF Contains(topic, switch) THEN "switch"
    ELSE IF Contains(topic, number) THEN "number"
    ELSE IF Contains(topic, text) THEN "text"
    ELSE IF Contains(topic, button) /\ payload = PRESS THEN "button"
    ELSE "unknown"

Route(m) ==
    LET raw_id == RawId(m.topic)
    IN [plugin |-> ResolvePlugin(raw_id),
        entity |-> ResolveEntity(raw_id),
        kind |-> Kind(m.topic, m.payload)]

(* is_float that takes every number for a float *)
IsFloatAlways(p, entity_id) == TRUE

(* is_float in _handle_number_update *)
IsFloat(p, entity_id) ==
    \E nb \in Numbers(p) : nb.id = entity_id /\ nb.type = "float"

NumberParses(p, entity_id, payload) ==
    IF IsFloat(p, entity_id) THEN FloatParses(payload) ELSE IntParses(payload)

NumberOf(p, entity_id, payload) ==
    IF IsFloat(p, entity_id) THEN FloatOf(payload) ELSE IntOf(payload)

----------------------------------------------------------------------------
(* Dictionaries *)

EmptyMap == [k \in {} |-> 0]
Put(m, k, v) == [x \in (DOMAIN m) \cup {k} |-> IF x = k THEN v ELSE m[x]]
Pop(m, k) == [x \in (DOMAIN m) \ {k} |-> m[x]]

(* PluginManager.is_plugin_running *)
is_plugin_running(p) == p \in DOMAIN running_tasks

(* PluginManager.get_running_plugins *)
get_running_plugins == DOMAIN running_tasks

(* apply_config_to_plugin that sets nothing *)
apply_config_skipped(attrs, p) == attrs

(* PluginManager.apply_config_to_plugin: the stored values of the plugin   *)
(* laid over the attributes the instance has; a stored attribute the       *)
(* instance lacks is skipped                                               *)
apply_config_to_plugin(attrs, p) ==
    IF p \in DOMAIN plugin_configs
    THEN [a \in DOMAIN attrs |->
            IF a \in DOMAIN plugin_configs[p] THEN plugin_configs[p][a] ELSE attrs[a]]
    ELSE attrs

(* lines 249-252 of store_plugin_config on a config map *)
StoreInto(configs, p, a, v) ==
    Put(configs, p, Put(IF p \in DOMAIN configs THEN configs[p] ELSE EmptyMap, a, v))

(* PluginManager.store_plugin_config: the persisted map after the write *)
StoredConfigs(p, a, v) == StoreInto(plugin_configs, p, a, v)

(* ... and the live instance after it: the instance registered under p,    *)
(* if there is one and it has the attribute                                *)
StoredRuns(p, a, v) ==
    IF p \in DOMAIN running_plugin_instances
       /\ HasAttr(runs[running_plugin_instances[p]].attrs, a)
    THEN [runs EXCEPT ![running_plugin_instances[p]].attrs[a] = v]
    ELSE runs

----------------------------------------------------------------------------
(* State *)

Callers == {"processor", "shutdown"}

IdleFrame == [pc |-> "idle", plugin |-> None, tid |-> 0, waited |-> 0, attrs |-> EmptyMap]

(* a process_message call: the message, what it resolved to, and what the  *)
(* call did (the reports made through MqttService, the manager operation   *)
(* invoked and its result, the run it registered, the config it stored)    *)
NoCall ==
    [active |-> FALSE, topic |-> <<>>, payload |-> <<>>, plugin |-> None,
     entity |-> <<>>, kind |-> "none", was_running |-> FALSE, reports |-> <<>>,
     invoked |-> "none", result |-> "none", run |-> 0, stored |-> <<>>,
     outcome |-> "none"]

Begin(m, r) ==
    [NoCall EXCEPT !.active = TRUE, !.topic = m.topic, !.payload = m.payload,
                   !.plugin = r.plugin, !.entity = r.entity, !.kind = r.kind,
                   !.was_running = is_plugin_running(r.plugin)]

Report(level, about) == [level |-> level, about |-> about]
Reported(call, level, about) ==
    [call EXCEPT !.reports = Append(@, Report(level, about))]
Ended(call, outcome) == [call EXCEPT !.active = FALSE, !.outcome = outcome]

(* the instance start_plugin builds and the task it creates for it; of the *)
(* instance: its configuration attributes, _user_decision_received (event) *)
(* and _user_accepted; of its execute(): the number of the item presented, *)
(* whether it waits for a decision and for how long, whether the review    *)
(* loop was left, and how each item was decided                            *)
NewRun(p, attrs) ==
    [plugin |-> p, attrs |-> attrs, event |-> FALSE, pc |-> "new", cancel |-> FALSE,
     branch |-> "none", raised |-> FALSE, reported |-> {}, off |-> FALSE,
     finalized |-> FALSE, accepted |-> FALSE, item |-> 0, waiting |-> FALSE,
     elapsed |-> 0, ended |-> FALSE, decisions |-> <<>>,
     prompting |-> FALSE, early |-> FALSE,
     applied |-> IF p \in DOMAIN plugin_configs
                 THEN DOMAIN attrs \cap DOMAIN plugin_configs[p] ELSE {}]

MainSwitchMessages ==
    {Msg(Topic(switch, p, set), pl) : p \in PluginIds, pl \in {ON, OFF}}

(* presses of the decision buttons *)
DecisionMessages ==
    {Msg(Topic(button, ingredient_merger \o <<"_">> \o accept_button, command), PRESS),
     Msg(Topic(button, ingredient_merger \o <<"_">> \o reject_button, command), PRESS),
     Msg(Topic(button, shopping_list_generator \o <<"_">> \o continue_to_next_batch,
               command), PRESS)}

ConfigMessages ==
    {Msg(Topic(number, neapolitan_pizza \o <<"_">> \o total_time, set), <<"3","0">>),
     Msg(Topic(number, neapolitan_pizza \o <<"_">> \o total_time, set), <<"a","b","c">>),
     Msg(Topic(number, mealiemate_ \o neapolitan_pizza \o <<"_">> \o salt_percent, set),
         <<"2",".","5","0">>),
     Msg(Topic(number, neapolitan_pizza \o <<"_">> \o total_time, set),
         <<"3",".","5">>),
     Msg(Topic(switch, shopping_list_generator \o <<"_">> \o include_today, set), ON),
     Msg(Topic(text, neapolitan_pizza \o <<"_">> \o feedback, set), <<"h","i">>),
     Msg(Topic(button, shopping_list_generator \o <<"_">> \o continue_to_next_batch,
               command), PRESS),
     Msg(Topic(button, neapolitan_pizza, command), ON),
     Msg(Topic(switch, neapolitan_pizza, set), PRESS),
     Msg(Topic(number, thermostat, set), <<"3","0">>)}

(* Route is a function of the message alone; Routed tabulates it for the   *)
(* messages of the model                                                   *)
(* messages whose raw identifier starts with a plugin id and is not the id *)
(* followed by the separator                                               *)
NearMessages ==
    {Msg(Topic(switch, neapolitan_pizza \o <<"x">>, set), ON),
     Msg(Topic(switch, neapolitan_pizza \o <<"x">>, set), OFF),
     Msg(Topic(number, neapolitan_pizza \o <<"x">> \o total_time, set), <<"3","0">>)}

Routed ==
    [m \in MainSwitchMessages \cup ConfigMessages \cup DecisionMessages \cup NearMessages
       |-> Route(m)]

TypeOK ==
    /\ DOMAIN running_tasks \subseteq PluginIds
    /\ DOMAIN running_plugin_instances \subseteq PluginIds
    /\ DOMAIN plugin_configs \subseteq PluginIds
    /\ Len(runs) <= MaxRuns
    /\ \A p \in DOMAIN running_tasks : running_tasks[p] \in 1..Len(runs)
    /\ \A p \in DOMAIN running_plugin_instances :
           running_plugin_instances[p] \in 1..Len(runs)
    /\ DOMAIN frame = Callers
    /\ handled \in 0..MaxMessages
    /\ \A p \in PluginIds : switch_state[p] \in {ON, OFF}

(* MealieMateApp: where the main task is in start(), the background tasks  *)
(* in the order of _background_tasks and what each is doing, the message   *)
(* queue, the number of the last message the processor took, who is inside *)
(* process_message                                                         *)
TaskNames == {"listener", "processor", "heartbeat", "midnight"}

(* setup_mqtt_entities (system_service.py 97-175): the values a number or  *)
(* a switch of plugin p is set up with are the attributes _<id> of the     *)
(* transient instance                                                      *)
Shown(attrs, p) ==
    [a \in DOMAIN attrs \cap ({AttrName(n.id) : n \in Numbers(p)}
                               \cup {AttrName(sw.switch_id) : sw \in Switches(p)})
       |-> attrs[a]]

Created(broker) ==
    [main |-> "start", broker |-> broker, connected |-> FALSE, tasks |-> <<>>,
     state |-> [t \in TaskNames |-> "none"], queue |-> <<>>, arrived |-> 0,
     begun |-> 0, drained |-> 0, calls |-> {}, entities |-> FALSE,
     aborted |-> FALSE, exit |-> "none", seen |-> <<>>, redelivered |-> <<>>,
     published |-> [p \in PluginIds |-> EmptyMap],
     beat |-> [pc |-> "attempt", elapsed |-> 0, after |-> "start", result |-> "none"],
     midnight |-> [pc |-> "poll", today |-> 1, last_reset_day |-> 1, now |-> 1,
                   rolled |-> 0, reset_at |-> 0, resets |-> 0]]

(* start() has set up the entities and started the four background tasks *)
Serving ==
    [Created(TRUE) EXCEPT !.main = "serving", !.connected = TRUE,
                          !.tasks = <<"listener", "processor", "heartbeat", "midnight">>,
                          !.state = [t \in TaskNames |->
                                       IF t = "listener" THEN "listening" ELSE "running"],
                          !.entities = TRUE, !.arrived = MaxMessages,
                          !.published = [p \in PluginIds |-> Shown(Inject(p), p)]]

(* PluginManager.__init__: nothing runs, nothing is stored; every main     *)
(* switch is OFF                                                           *)
NothingRuns ==
    /\ running_tasks = EmptyMap
    /\ running_plugin_instances = EmptyMap
    /\ plugin_configs = EmptyMap
    /\ runs = <<>>
    /\ cur = NoCall
    /\ last = NoCall
    /\ shutdown_todo = <<>>
    /\ switch_state = [p \in PluginIds |-> OFF]
    /\ handled = 0

(* The state once MealieMateApp.start has set up the entities and started  *)
(* the processor; shutdown() may be called at any time from then on.       *)
Init ==
    /\ NothingRuns
    /\ frame = [c \in Callers |->
                  IF c = "shutdown" THEN [IdleFrame EXCEPT !.pc = "not_started"]
                  ELSE IdleFrame]
    /\ app = Serving

(* The same state with an empty queue: the control messages arrive while   *)
(* the application serves                                                  *)
InitQueue ==
    /\ NothingRuns
    /\ frame = [c \in Callers |->
                  IF c = "shutdown" THEN [IdleFrame EXCEPT !.pc = "not_started"]
                  ELSE IdleFrame]
    /\ app = [Serving EXCEPT !.arrived = 0]

(* The state when MealieMateApp.start is called, with or without a broker  *)
(* in the environment                                                      *)
InitApp ==
    /\ NothingRuns
    /\ frame = [c \in Callers |-> IdleFrame]
    /\ app \in {Created(broker) : broker \in BOOLEAN}

----------------------------------------------------------------------------
(* The supervised task: PluginManager._execute_plugin                      *)

RunIds == 1..Len(runs)

(* the ids the tasks of one behaviour can have *)
AllRunIds == 1..MaxRuns

(* a task that is done; of what the task did, only whether execute() raised *)
(* and whether the finally block ran is kept once it is done               *)
Finished(run, finalized) ==
    [run EXCEPT !.pc = "done", !.cancel = FALSE, !.branch = "none",
                !.reported = {}, !.off = FALSE, !.finalized = finalized]

(* ha_mqtt.set_switch_state(plugin_id, state): the publish on the state topic *)
Published(p, state) == [switch_state EXCEPT ![p] = state]

(* The event loop runs the task for the first time.  A task cancelled      *)
(* before its first step ends without entering the coroutine body, so the  *)
(* finally block does not run.                                             *)
TaskStart(i) ==
    /\ i \in RunIds
    /\ runs[i].pc = "new"
    /\ runs' = IF runs[i].cancel
               THEN [runs EXCEPT ![i] = Finished(@, FALSE)]
               ELSE [runs EXCEPT ![i].pc = "exec"]
    /\ UNCHANGED <<running_tasks, running_plugin_instances, plugin_configs, frame, cur,
                   last, shutdown_todo, switch_state, handled>>
    /\ UNCHANGED app

(* plugin.execute() returns: success report, switch OFF (lines 171-174) *)
ExecuteReturn(i) ==
    /\ i \in RunIds
    /\ runs[i].pc = "exec" /\ ~runs[i].cancel
    /\ ~runs[i].waiting /\ ~runs[i].prompting
    /\ runs' = [runs EXCEPT ![i].pc = "off", ![i].branch = "success",
                            ![i].reported = @ \cup {"success"}, ![i].off = TRUE]
    /\ switch_state' = Published(runs[i].plugin, OFF)
    /\ UNCHANGED <<running_tasks, running_plugin_instances, plugin_configs, frame, cur,
                   last, shutdown_todo, handled>>
    /\ UNCHANGED app

(* a failure that also drops what is stored for the plugin *)
ExecuteRaiseForgets(i) ==
    /\ i \in RunIds
    /\ runs[i].pc = "exec" /\ ~runs[i].cancel
    /\ runs' = [runs EXCEPT ![i].pc = "off", ![i].branch = "error", ![i].raised = TRUE,
                            ![i].reported = @ \cup {"error"}, ![i].off = TRUE]
    /\ switch_state' = Published(runs[i].plugin, OFF)
    /\ plugin_configs' = Pop(plugin_configs, runs[i].plugin)
    /\ UNCHANGED <<running_tasks, running_plugin_instances, frame, cur,
                   last, shutdown_todo, handled>>
    /\ UNCHANGED app

(* plugin.execute() raises an Exception: error report, switch OFF          *)
(* (lines 179-195)                                                         *)
ExecuteRaise(i) ==
    /\ i \in RunIds
    /\ runs[i].pc = "exec" /\ ~runs[i].cancel
    /\ runs' = [runs EXCEPT ![i].pc = "off", ![i].branch = "error", ![i].raised = TRUE,
                            ![i].reported = @ \cup {"error"}, ![i].off = TRUE]
    /\ switch_state' = Published(runs[i].plugin, OFF)
    /\ UNCHANGED <<running_tasks, running_plugin_instances, plugin_configs, frame, cur,
                   last, shutdown_todo, handled>>
    /\ UNCHANGED app

(* the CancelledError thrown into execute() leaves it: "stopped manually", *)
(* switch OFF (lines 175-178)                                              *)
ExecuteCancelled(i) ==
    /\ i \in RunIds
    /\ runs[i].pc = "exec" /\ runs[i].cancel
    /\ runs' = [runs EXCEPT ![i].pc = "off", ![i].branch = "cancelled",
                            ![i].cancel = FALSE,
                            ![i].reported = @ \cup {"stopped"}, ![i].off = TRUE]
    /\ switch_state' = Published(runs[i].plugin, OFF)
    /\ UNCHANGED <<running_tasks, running_plugin_instances, plugin_configs, frame, cur,
                   last, shutdown_todo, handled>>
    /\ UNCHANGED app

(* execute() catches the CancelledError (or is cleaning up in a finally or *)
(* an async context manager) and keeps running                             *)
ExecuteIgnoresCancel(i) ==
    /\ i \in RunIds
    /\ runs[i].pc = "exec" /\ runs[i].cancel
    /\ runs' = [runs EXCEPT ![i].cancel = FALSE]
    /\ UNCHANGED <<running_tasks, running_plugin_instances, plugin_configs, frame, cur,
                   last, shutdown_todo, switch_state, handled>>
    /\ UNCHANGED app

(* cancelled while suspended in the publish of line 174, inside the try:   *)
(* the except CancelledError arm runs                                      *)
WrapperCancelled(i) ==
    /\ i \in RunIds
    /\ runs[i].pc = "off" /\ runs[i].cancel /\ runs[i].branch = "success"
    /\ runs' = [runs EXCEPT ![i].branch = "cancelled", ![i].cancel = FALSE,
                            ![i].reported = @ \cup {"stopped"}]
    /\ switch_state' = Published(runs[i].plugin, OFF)
    /\ UNCHANGED <<running_tasks, running_plugin_instances, plugin_configs, frame, cur,
                   last, shutdown_todo, handled>>
    /\ UNCHANGED app

(* the finally block without line 199: the instance stays registered *)
WrapperFinallyKeepsInstance(i) ==
    /\ i \in RunIds
    /\ runs[i].pc = "off"
    /\ ~(runs[i].cancel /\ runs[i].branch = "success")
    /\ running_tasks' = Pop(running_tasks, runs[i].plugin)
    /\ runs' = [runs EXCEPT ![i] = Finished(@, TRUE)]
    /\ UNCHANGED <<running_plugin_instances, plugin_configs, frame, cur, last,
                   shutdown_todo, switch_state, handled>>
    /\ UNCHANGED app

(* the finally block (lines 196-200), reached when the publish is over or  *)
(* when a CancelledError leaves an except arm                              *)
WrapperFinally(i) ==
    /\ i \in RunIds
    /\ runs[i].pc = "off"
    /\ ~(runs[i].cancel /\ runs[i].branch = "success")
    /\ running_tasks' = Pop(running_tasks, runs[i].plugin)
    /\ running_plugin_instances' = Pop(running_plugin_instances, runs[i].plugin)
    /\ runs' = [runs EXCEPT ![i] = Finished(@, TRUE)]
    /\ UNCHANGED <<plugin_configs, frame, cur, last, shutdown_todo, switch_state,
                   handled>>
    /\ UNCHANGED app

----------------------------------------------------------------------------
(* The waits for a decision inside execute():                              *)
(* IngredientMergerPlugin.present_suggestion_to_user and                   *)
(* ShoppingListGeneratorPlugin.present_recipes_to_user /                   *)
(* present_ingredients_to_user                                             *)

(* The next item is presented and its prompt is being published.  The     *)
(* ingredient merger clears the event and _user_accepted before it         *)
(* publishes (ingredient_merger.py 275-276, then the log of line 307).     *)
(* early tells that the event was set while no displayed item was waited   *)
(* for.                                                                    *)
Present(i) ==
    /\ i \in RunIds
    /\ runs[i].pc = "exec" /\ ~runs[i].cancel
    /\ runs[i].plugin \in {ingredient_merger, shopping_list_generator}
    /\ ~runs[i].waiting /\ ~runs[i].prompting /\ ~runs[i].ended
    /\ runs[i].item < MaxItems
    /\ runs' = [runs EXCEPT
                  ![i] = IF runs[i].plugin = ingredient_merger
                         THEN [@ EXCEPT !.item = @ + 1, !.prompting = TRUE,
                                        !.event = FALSE, !.accepted = FALSE,
                                        !.early = FALSE]
                         ELSE [@ EXCEPT !.item = @ + 1, !.prompting = TRUE]]
    /\ UNCHANGED <<running_tasks, running_plugin_instances, plugin_configs, frame, cur,
                   last, shutdown_todo, switch_state, handled, app>>

(* The prompt is published and wait_for(event.wait(), 3600) begins.  The   *)
(* shopping list generator clears the event now, after its publishes       *)
(* (shopping_list_generator.py 643-648); the ingredient merger goes        *)
(* straight to the wait (ingredient_merger.py 307-312).                    *)
Displayed(i) ==
    /\ i \in RunIds
    /\ runs[i].pc = "exec" /\ ~runs[i].cancel
    /\ runs[i].prompting
    /\ runs' = [runs EXCEPT
                  ![i] = IF runs[i].plugin = shopping_list_generator
                         THEN [@ EXCEPT !.prompting = FALSE, !.waiting = TRUE,
                                        !.elapsed = 0, !.event = FALSE,
                                        !.early = FALSE]
                         ELSE [@ EXCEPT !.prompting = FALSE, !.waiting = TRUE,
                                        !.elapsed = 0]]
    /\ UNCHANGED <<running_tasks, running_plugin_instances, plugin_configs, frame, cur,
                   last, shutdown_todo, switch_state, handled, app>>

(* time passes while the plugin waits and no button was pressed *)
Tick(i) ==
    /\ i \in RunIds
    /\ runs[i].pc = "exec" /\ runs[i].waiting
    /\ ~runs[i].event
    /\ runs[i].elapsed < DecisionTimeout
    /\ runs' = [runs EXCEPT ![i].elapsed = IF @ + TimeStep > DecisionTimeout
                                           THEN DecisionTimeout ELSE @ + TimeStep]
    /\ UNCHANGED <<running_tasks, running_plugin_instances, plugin_configs, frame, cur,
                   last, shutdown_todo, switch_state, handled, app>>

(* the event was set in time: the merger returns _user_accepted, the       *)
(* shopping list generator processes the batch and goes on                 *)
DecisionMade(i) ==
    /\ i \in RunIds
    /\ runs[i].pc = "exec" /\ ~runs[i].cancel
    /\ runs[i].waiting /\ runs[i].event
    /\ runs[i].elapsed < DecisionTimeout
    /\ runs' = [runs EXCEPT ![i].waiting = FALSE,
                            ![i].decisions =
                               Append(@, IF runs[i].plugin = shopping_list_generator
                                         THEN "continued"
                                         ELSE IF runs[i].accepted THEN "accepted"
                                         ELSE "rejected")]
    /\ UNCHANGED <<running_tasks, running_plugin_instances, plugin_configs, frame, cur,
                   last, shutdown_todo, switch_state, handled, app>>

(* a wait that is started again when it times out *)
DecisionTimedOutRetries(i) ==
    /\ i \in RunIds
    /\ runs[i].pc = "exec" /\ ~runs[i].cancel
    /\ runs[i].waiting
    /\ runs[i].elapsed >= DecisionTimeout
    /\ runs' = [runs EXCEPT ![i].elapsed = 0]
    /\ UNCHANGED <<running_tasks, running_plugin_instances, plugin_configs, frame, cur,
                   last, shutdown_todo, switch_state, handled, app>>

(* wait_for raises TimeoutError, also when a button is pressed after the   *)
(* timeout has expired: the merger returns False and its loop goes on with *)
(* the next suggestion; present_..._to_user of the shopping list generator *)
(* returns False and the loop of execute() breaks                          *)
DecisionTimedOut(i) ==
    /\ i \in RunIds
    /\ runs[i].pc = "exec" /\ ~runs[i].cancel
    /\ runs[i].waiting
    /\ runs[i].elapsed >= DecisionTimeout
    /\ runs' = [runs EXCEPT ![i].waiting = FALSE,
                            ![i].ended = (runs[i].plugin = shopping_list_generator),
                            ![i].decisions = Append(@, "timeout")]
    /\ UNCHANGED <<running_tasks, running_plugin_instances, plugin_configs, frame, cur,
                   last, shutdown_todo, switch_state, handled, app>>

----------------------------------------------------------------------------
(* PluginManager.start_plugin and PluginManager.stop_plugin                *)

(* a task cancelled by shutdown() takes no step but the one that receives  *)
(* the CancelledError                                                      *)
Alive(c) == c = "processor" => (app.state[c] = "running" \/ app.main = "drain_call")

(* what a caller does when the manager operation it awaits is over:        *)
(* process_message returns (or lets the exception through) to the          *)
(* processor; shutdown goes on with the next plugin of its snapshot, or is *)
(* left by the exception                                                   *)
(* the processor without the except arm of app.py 372-377: an exception    *)
(* that leaves process_message leaves the loop                             *)
ResumesUncaught(c, call, outcome) ==
    IF c = "processor"
    THEN /\ last' = Ended(call, outcome)
         /\ cur' = NoCall
         /\ frame' = [frame EXCEPT
                        ![c] = [IdleFrame EXCEPT
                                  !.pc = IF outcome = "raised" THEN "raised" ELSE "idle"]]
         /\ UNCHANGED shutdown_todo
    ELSE /\ shutdown_todo' = Tail(shutdown_todo)
         /\ frame' = [frame EXCEPT
                        ![c] = [IdleFrame EXCEPT
                                  !.pc = IF outcome = "raised" THEN "raised" ELSE "loop"]]
         /\ UNCHANGED <<cur, last>>

Resumes(c, call, outcome) ==
    IF c = "processor"
    THEN /\ last' = Ended(call, outcome)
         /\ cur' = NoCall
         /\ frame' = [frame EXCEPT ![c] = IdleFrame]
         /\ UNCHANGED shutdown_todo
    ELSE /\ shutdown_todo' = Tail(shutdown_todo)
         /\ frame' = [frame EXCEPT
                        ![c] = [IdleFrame EXCEPT
                                  !.pc = IF outcome = "raised" THEN "raised" ELSE "loop"]]
         /\ UNCHANGED <<cur, last>>

(* lines 86-93 without line 89: the task is created but not recorded *)
RegistersInstanceOnly(p, attrs) ==
    /\ runs' = Append(runs, NewRun(p, attrs))
    /\ running_plugin_instances' = Put(running_plugin_instances, p, Len(runs) + 1)
    /\ UNCHANGED running_tasks
    /\ switch_state' = Published(p, ON)

(* lines 86-93: the instance and the task are recorded, the switch goes ON *)
Registers(p, attrs) ==
    /\ runs' = Append(runs, NewRun(p, attrs))
    /\ running_plugin_instances' = Put(running_plugin_instances, p, Len(runs) + 1)
    /\ running_tasks' = Put(running_tasks, p, Len(runs) + 1)
    /\ switch_state' = Published(p, ON)

(* the instance is registered as the constructor left it *)
StartRegisterDefaults ==
    /\ Alive("processor")
    /\ frame["processor"].pc = "start_reset"
    /\ Registers(frame["processor"].plugin, Inject(frame["processor"].plugin))
    /\ frame' = [frame EXCEPT !["processor"].pc = "start_on"]
    /\ cur' = [cur EXCEPT !.run = Len(runs) + 1]
    /\ UNCHANGED <<plugin_configs, last, shutdown_todo, handled>>
    /\ UNCHANGED app

(* start_plugin resumes after _reset_plugin_sensors (line 80) *)
StartRegister ==
    /\ Alive("processor")
    /\ frame["processor"].pc = "start_reset"
    /\ Registers(frame["processor"].plugin, frame["processor"].attrs)
    /\ frame' = [frame EXCEPT !["processor"].pc = "start_on"]
    /\ cur' = [cur EXCEPT !.run = Len(runs) + 1]
    /\ UNCHANGED <<plugin_configs, last, shutdown_todo, handled>>
    /\ UNCHANGED app

(* start_plugin resumes after the publish of line 93 and returns True *)
StartReturn ==
    /\ Alive("processor")
    /\ frame["processor"].pc = "start_on"
    /\ Resumes("processor", [cur EXCEPT !.result = "true"], "returned")
    /\ UNCHANGED <<running_tasks, running_plugin_instances, plugin_configs, runs,
                   switch_state, handled>>
    /\ UNCHANGED app

(* stop_plugin with the cancellation first: the task is taken out of the   *)
(* map and cancelled before anything is published                          *)
StopsCancelFirst(c, p, call) ==
    IF p \notin DOMAIN running_tasks
    THEN /\ Resumes(c, Reported([call EXCEPT !.result = "false"], "info", p), "returned")
         /\ UNCHANGED <<running_tasks, running_plugin_instances, runs, switch_state>>
    ELSE /\ frame' = [frame EXCEPT ![c] = [IdleFrame EXCEPT !.pc = "stop_wait",
                                                              !.plugin = p,
                                                              !.tid = running_tasks[p]]]
         /\ running_tasks' = Pop(running_tasks, p)
         /\ runs' = IF runs[running_tasks[p]].pc = "done" THEN runs
                    ELSE [runs EXCEPT ![running_tasks[p]].cancel = TRUE]
         /\ IF c = "processor"
            THEN cur' = Reported(call, "info", p) /\ UNCHANGED <<last, shutdown_todo>>
            ELSE UNCHANGED <<cur, last, shutdown_todo>>
         /\ UNCHANGED <<running_plugin_instances, switch_state>>

(* stop_plugin up to its first suspension.  Not running: "skip", False     *)
(* (lines 107-109).  Running: switch OFF is published (line 114).          *)
Stops(c, p, call) ==
    IF p \notin DOMAIN running_tasks
    THEN /\ Resumes(c, Reported([call EXCEPT !.result = "false"], "info", p), "returned")
         /\ UNCHANGED <<running_tasks, running_plugin_instances, runs, switch_state>>
    ELSE /\ frame' = [frame EXCEPT ![c] = [IdleFrame EXCEPT !.pc = "stop_off",
                                                              !.plugin = p]]
         /\ switch_state' = Published(p, OFF)
         /\ IF c = "processor"
            THEN cur' = Reported(call, "info", p) /\ UNCHANGED <<last, shutdown_todo>>
            ELSE UNCHANGED <<cur, last, shutdown_todo>>
         /\ UNCHANGED <<running_tasks, running_plugin_instances, runs>>

(* lines 119-123: the task is popped and cancelled, wait_for begins.       *)
(* dict.pop without a default raises KeyError when the key is gone.        *)
StopPop(c) ==
    /\ Alive(c)
    /\ frame[c].pc = "stop_off"
    /\ LET p == frame[c].plugin
       IN IF p \notin DOMAIN running_tasks
          THEN /\ Resumes(c, cur, "raised")
               /\ UNCHANGED <<running_tasks, runs>>
          ELSE /\ running_tasks' = Pop(running_tasks, p)
               /\ runs' = IF runs[running_tasks[p]].pc = "done" THEN runs
                          ELSE [runs EXCEPT ![running_tasks[p]].cancel = TRUE]
               /\ frame' = [frame EXCEPT ![c].pc = "stop_wait",
                                         ![c].tid = running_tasks[p]]
               /\ UNCHANGED <<cur, last, shutdown_todo>>
    /\ UNCHANGED <<running_plugin_instances, plugin_configs, switch_state, handled>>
    /\ UNCHANGED app

(* A time unit passes while stop_plugin waits in wait_for(task, 1): the    *)
(* task has swallowed the cancellation and execute() goes on.  When the    *)
(* timeout expires wait_for cancels the task again and keeps waiting until *)
(* the task is done.                                                       *)
StopTick(c) ==
    /\ Alive(c)
    /\ frame[c].pc = "stop_wait"
    /\ runs[frame[c].tid].pc = "exec" /\ ~runs[frame[c].tid].cancel
    /\ frame[c].waited < MaxWait
    /\ frame' = [frame EXCEPT ![c].waited = @ + 1]
    /\ runs' = IF frame[c].waited + 1 = StopTimeout
               THEN [runs EXCEPT ![frame[c].tid].cancel = TRUE]
               ELSE runs
    /\ UNCHANGED <<running_tasks, running_plugin_instances, plugin_configs, cur, last,
                   shutdown_todo, switch_state, handled>>
    /\ UNCHANGED app

(* lines 141-144: the instance is removed, stop_plugin returns True *)
Removes(c) ==
    /\ running_plugin_instances' = Pop(running_plugin_instances, frame[c].plugin)
    /\ Resumes(c, [cur EXCEPT !.result = "true"], "returned")

(* wait_for is over once the task is done (lines 124-138): the progress    *)
(* sensor and the reset_sensors of a fresh instance are published          *)
StopResume(c) ==
    /\ Alive(c)
    /\ frame[c].pc = "stop_wait"
    /\ runs[frame[c].tid].pc = "done"
    /\ IF HasProgress(frame[c].plugin) \/ ResetSensors(frame[c].plugin) # <<>>
       THEN /\ frame' = [frame EXCEPT ![c].pc = "stop_reset", ![c].tid = 0,
                                         ![c].waited = 0]
            /\ UNCHANGED <<running_plugin_instances, cur, last, shutdown_todo>>
       ELSE Removes(c)
    /\ UNCHANGED <<running_tasks, plugin_configs, runs, switch_state, handled>>
    /\ UNCHANGED app

(* stop_plugin resumes after the publishes of lines 135-138 *)
StopFinish(c) ==
    /\ Alive(c)
    /\ frame[c].pc = "stop_reset"
    /\ Removes(c)
    /\ UNCHANGED <<running_tasks, plugin_configs, runs, switch_state, handled>>
    /\ UNCHANGED app

----------------------------------------------------------------------------
(* MqttMessageHandler.process_message, called by the processor task for    *)
(* one message at a time; r is Route(m), the plugin, entity and kind that  *)
(* lines 52-92 resolve for the message                                     *)

(* the message process_message is called for in the drain of start()      *)
(* (app.py 262-268)                                                        *)
Retained(m) ==
    /\ handled < Len(app.seen)
    /\ m = app.seen[Len(app.seen)]

(* the message the processor takes from the queue (app.py 360-362), when   *)
(* the queue holds the retained messages the listener has put on it: the   *)
(* oldest one that process_message was not called for                      *)
Queued(m) ==
    /\ handled - Len(app.seen) < Len(app.redelivered)
    /\ m = app.redelivered[handled - Len(app.seen) + 1]

Dispatchable(m) ==
    /\ Alive("processor")
    /\ ~cur.active
    /\ frame["processor"].pc = "idle"
    /\ handled < MaxMessages
    /\ IF app.main = "drain_call" THEN Retained(m)
       ELSE IF app.redelivered # <<>> THEN Queued(m)
       ELSE handled < app.arrived

(* lines 72-74 without the warning: the message is dropped silently *)
UnknownPluginSilent(m, r) ==
    /\ Dispatchable(m)
    /\ r.plugin = None
    /\ last' = Ended(Begin(m, r), "returned")
    /\ handled' = handled + 1
    /\ UNCHANGED <<running_tasks, running_plugin_instances, plugin_configs, runs, frame,
                   cur, shutdown_todo, switch_state>>
    /\ UNCHANGED app

(* lines 72-74: no registered id is a prefix of raw_id *)
UnknownPlugin(m, r) ==
    /\ Dispatchable(m)
    /\ r.plugin = None
    /\ last' = Ended(Reported(Begin(m, r), "warning", mealiemate_), "returned")
    /\ handled' = handled + 1
    /\ UNCHANGED <<running_tasks, running_plugin_instances, plugin_configs, runs, frame,
                   cur, shutdown_todo, switch_state>>
    /\ UNCHANGED app

(* start_plugin without the check of line 59 *)
StartSkipsNothing(p) == FALSE

(* line 59: start_plugin skips a plugin that has a task in _running_tasks *)
StartSkips(p) == p \in DOMAIN running_tasks

(* main switch ON: start_plugin up to its first suspension (lines 58-93).  *)
(* Already running: "skip", False.  Otherwise the instance is built, the   *)
(* stored config applied, the sensors reset; a plugin with no              *)
(* reset_sensors is registered without a suspension in between.            *)
SwitchOn(m, r) ==
    /\ Dispatchable(m)
    /\ r.plugin # None /\ r.kind = "switch"
    /\ r.entity = <<>> /\ m.payload = ON
    /\ StartSkips(r.plugin) \/ Len(runs) < MaxRuns
    /\ LET p == r.plugin
           call == Reported([Begin(m, r) EXCEPT !.invoked = "start_plugin"], "info", p)
           attrs == apply_config_to_plugin(Inject(p), p)
       IN IF StartSkips(p)
          THEN /\ Resumes("processor", [call EXCEPT !.result = "false"], "returned")
               /\ UNCHANGED <<running_tasks, running_plugin_instances, runs, switch_state>>
          ELSE IF ResetSensors(p) = <<>>
          THEN /\ Registers(p, attrs)
               /\ frame' = [frame EXCEPT !["processor"] =
                              [IdleFrame EXCEPT !.pc = "start_on", !.plugin = p]]
               /\ cur' = [call EXCEPT !.run = Len(runs) + 1]
               /\ UNCHANGED <<last, shutdown_todo>>
          ELSE /\ frame' = [frame EXCEPT !["processor"] =
                              [IdleFrame EXCEPT !.pc = "start_reset", !.plugin = p,
                                                !.attrs = attrs]]
               /\ cur' = call
               /\ UNCHANGED <<running_tasks, running_plugin_instances, runs, switch_state,
                              last, shutdown_todo>>
    /\ handled' = handled + 1
    /\ UNCHANGED <<plugin_configs>>
    /\ UNCHANGED app

(* the order of main.py's execute_plugin: the switch goes ON before the    *)
(* instance is built                                                       *)
StartFailsSwitchOn(m, r) ==
    /\ Dispatchable(m)
    /\ r.plugin # None /\ r.kind = "switch"
    /\ r.entity = <<>> /\ m.payload = ON
    /\ ~StartSkips(r.plugin)
    /\ last' = Ended(Reported(Reported([Begin(m, r) EXCEPT !.invoked = "start_plugin",
                                                           !.result = "false"],
                                       "info", r.plugin), "error", r.plugin), "returned")
    /\ switch_state' = Published(r.plugin, ON)
    /\ handled' = handled + 1
    /\ UNCHANGED <<running_tasks, running_plugin_instances, plugin_configs, runs, frame,
                   cur, shutdown_todo, app>>

(* main switch ON, and container.inject or apply_config_to_plugin raises   *)
(* (lines 73-84): the error is reported, start_plugin returns False        *)
StartFails(m, r) ==
    /\ Dispatchable(m)
    /\ r.plugin # None /\ r.kind = "switch"
    /\ r.entity = <<>> /\ m.payload = ON
    /\ ~StartSkips(r.plugin)
    /\ last' = Ended(Reported(Reported([Begin(m, r) EXCEPT !.invoked = "start_plugin",
                                                           !.result = "false"],
                                       "info", r.plugin), "error", r.plugin), "returned")
    /\ handled' = handled + 1
    /\ UNCHANGED <<running_tasks, running_plugin_instances, plugin_configs, runs, frame,
                   cur, shutdown_todo, switch_state, app>>

(* start_plugin called with an id the registry does not have (lines        *)
(* 66-70): the error is reported, start_plugin returns False               *)
StartUnregistered(p) ==
    /\ Alive("processor")
    /\ ~cur.active /\ frame["processor"].pc = "idle"
    /\ p \notin PluginIds
    /\ ~StartSkips(p)
    /\ last' = Ended(Reported(Reported([NoCall EXCEPT !.plugin = p, !.kind = "direct",
                                                      !.invoked = "start_plugin",
                                                      !.result = "false"],
                                       "info", p), "error", p), "returned")
    /\ UNCHANGED <<running_tasks, running_plugin_instances, plugin_configs, runs, frame,
                   cur, shutdown_todo, switch_state, handled, app>>

(* main switch OFF: stop_plugin *)
SwitchOff(m, r) ==
    /\ Dispatchable(m)
    /\ r.plugin # None /\ r.kind = "switch"
    /\ r.entity = <<>> /\ m.payload = OFF
    /\ Stops("processor", r.plugin, [Begin(m, r) EXCEPT !.invoked = "stop_plugin"])
    /\ handled' = handled + 1
    /\ UNCHANGED <<plugin_configs>>
    /\ UNCHANGED app

(* main switch with a payload that is neither ON nor OFF: the if/elif of   *)
(* lines 105-108 has no else, the call returns without a report            *)
SwitchIgnored(m, r) ==
    /\ Dispatchable(m)
    /\ r.plugin # None /\ r.kind = "switch"
    /\ r.entity = <<>> /\ m.payload \notin {ON, OFF}
    /\ last' = Ended(Begin(m, r), "returned")
    /\ handled' = handled + 1
    /\ UNCHANGED <<running_tasks, running_plugin_instances, plugin_configs, runs, frame,
                   cur, shutdown_todo, switch_state>>
    /\ UNCHANGED app

(* an additional switch (lines 109-143): a declared switch whose attribute *)
(* the instance has is stored as payload == "ON" and its state published   *)
AuxSwitch(m, r) ==
    /\ Dispatchable(m)
    /\ r.plugin # None /\ r.kind = "switch" /\ r.entity # <<>>
    /\ LET p == r.plugin
           found == {sw \in Switches(p) : sw.id = r.entity}
       IN IF found = {}
          THEN /\ last' = Ended(Reported(Begin(m, r), "warning", p), "returned")
               /\ UNCHANGED <<plugin_configs, runs, frame, cur>>
          ELSE LET a == AttrName((CHOOSE sw \in found : TRUE).switch_id)
                   v == BoolV(m.payload = ON)
               IN IF HasAttr(Inject(p), a)
                  THEN /\ plugin_configs' = StoredConfigs(p, a, v)
                       /\ runs' = StoredRuns(p, a, v)
                       /\ cur' = [Begin(m, r) EXCEPT
                                    !.stored = <<[plugin |-> p, attr |-> a, value |-> v]>>]
                       /\ frame' = [frame EXCEPT !["processor"] =
                                      [IdleFrame EXCEPT !.pc = "aux_pub", !.plugin = p]]
                       /\ UNCHANGED last
                  ELSE /\ last' = Ended(Reported(Begin(m, r), "warning", p), "returned")
                       /\ UNCHANGED <<plugin_configs, runs, frame, cur>>
    /\ handled' = handled + 1
    /\ UNCHANGED <<running_tasks, running_plugin_instances, shutdown_todo, switch_state>>
    /\ UNCHANGED app

(* the switch handler resumes after the publish of line 130 *)
AuxSwitchReturn ==
    /\ Alive("processor")
    /\ frame["processor"].pc = "aux_pub"
    /\ Resumes("processor", Reported(cur, "info", cur.plugin), "returned")
    /\ UNCHANGED <<running_tasks, running_plugin_instances, plugin_configs, runs,
                   switch_state, handled>>
    /\ UNCHANGED app

(* _handle_number_update: the payload is parsed as float when the declared *)
(* number with this id is typed float, as int otherwise; a ValueError is   *)
(* reported.  The parsed value is stored when a fresh instance has the     *)
(* attribute _<entity_id>.                                                 *)
NumberUpdate(m, r) ==
    /\ Dispatchable(m)
    /\ r.plugin # None /\ r.kind = "number"
    /\ LET p == r.plugin
           e == r.entity
           a == AttrName(e)
       IN IF ~NumberParses(p, e, m.payload)
          THEN /\ last' = Ended(Reported(Begin(m, r), "error", p), "returned")
               /\ UNCHANGED <<plugin_configs, runs>>
          ELSE IF HasAttr(Inject(p), a)
          THEN /\ plugin_configs' = StoredConfigs(p, a, NumberOf(p, e, m.payload))
               /\ runs' = StoredRuns(p, a, NumberOf(p, e, m.payload))
               /\ last' = Ended(Reported(
                            [Begin(m, r) EXCEPT
                               !.stored = <<[plugin |-> p, attr |-> a,
                                             value |-> NumberOf(p, e, m.payload)]>>],
                            "info", p), "returned")
          ELSE /\ last' = Ended(Reported(Begin(m, r), "warning", p), "returned")
               /\ UNCHANGED <<plugin_configs, runs>>
    /\ handled' = handled + 1
    /\ UNCHANGED <<running_tasks, running_plugin_instances, frame, cur, shutdown_todo,
                   switch_state>>
    /\ UNCHANGED app

(* _handle_text_update: the payload is stored as it is when a fresh        *)
(* instance has the attribute _<entity_id>                                 *)
TextUpdate(m, r) ==
    /\ Dispatchable(m)
    /\ r.plugin # None /\ r.kind = "text"
    /\ LET p == r.plugin
           a == AttrName(r.entity)
       IN IF HasAttr(Inject(p), a)
          THEN /\ plugin_configs' = StoredConfigs(p, a, StrV(m.payload))
               /\ runs' = StoredRuns(p, a, StrV(m.payload))
               /\ last' = Ended(Reported(
                            [Begin(m, r) EXCEPT
                               !.stored = <<[plugin |-> p, attr |-> a,
                                             value |-> StrV(m.payload)]>>],
                            "info", p), "returned")
          ELSE /\ last' = Ended(Reported(Begin(m, r), "warning", p), "returned")
               /\ UNCHANGED <<plugin_configs, runs>>
    /\ handled' = handled + 1
    /\ UNCHANGED <<running_tasks, running_plugin_instances, frame, cur, shutdown_todo,
                   switch_state>>
    /\ UNCHANGED app

(* lines 245-272: the accept and the reject button of the ingredient       *)
(* merger set _user_accepted and the event of the instance, the continue   *)
(* button of the shopping list generator sets the event                    *)
Pressed(run, p, entity_id) ==
    IF p = ingredient_merger /\ entity_id \in {accept_button, reject_button}
    THEN [run EXCEPT !.accepted = (entity_id = accept_button), !.event = TRUE,
                     !.early = ~run.waiting]
    ELSE IF p = shopping_list_generator /\ entity_id = continue_to_next_batch
    THEN [run EXCEPT !.event = TRUE, !.early = ~run.waiting]
    ELSE run

(* _handle_button_command without the check of line 242: the flag is set   *)
(* on whatever get_running_plugin_instance returns, None when nothing runs *)
ButtonPressUnchecked(m, r) ==
    /\ Dispatchable(m)
    /\ r.plugin # None /\ r.kind = "button"
    /\ LET p == r.plugin
           call == Reported(Begin(m, r), "info", p)
       IN IF p \in DOMAIN running_plugin_instances
          THEN /\ runs' = [runs EXCEPT ![running_plugin_instances[p]] =
                                   Pressed(@, p, r.entity)]
               /\ last' = Ended(call, "returned")
          ELSE /\ runs' = runs
               /\ last' = Ended(call, "raised")
    /\ handled' = handled + 1
    /\ UNCHANGED <<running_tasks, running_plugin_instances, plugin_configs, frame, cur,
                   shutdown_todo, switch_state>>
    /\ UNCHANGED app

(* _handle_button_command: the press is reported; a decision button sets   *)
(* the flags of the registered instance; with no registered instance a     *)
(* warning is logged (logger.warning, line 274)                            *)
ButtonPress(m, r) ==
    /\ Dispatchable(m)
    /\ r.plugin # None /\ r.kind = "button"
    /\ LET p == r.plugin
           call == Reported(Begin(m, r), "info", p)
       IN IF p \in DOMAIN running_plugin_instances
          THEN /\ runs' = [runs EXCEPT ![running_plugin_instances[p]] =
                                   Pressed(@, p, r.entity)]
               /\ last' = Ended(call, "returned")
          ELSE /\ runs' = runs
               /\ last' = Ended(Reported(call, "logged warning", p), "returned")
    /\ handled' = handled + 1
    /\ UNCHANGED <<running_tasks, running_plugin_instances, plugin_configs, frame, cur,
                   shutdown_todo, switch_state>>
    /\ UNCHANGED app

(* line 93: a topic of no handled kind, or a button topic whose payload is *)
(* not PRESS                                                               *)
UnknownCommand(m, r) ==
    /\ Dispatchable(m)
    /\ r.plugin # None /\ r.kind = "unknown"
    /\ last' = Ended(Reported(Begin(m, r), "warning", r.plugin), "returned")
    /\ handled' = handled + 1
    /\ UNCHANGED <<running_tasks, running_plugin_instances, plugin_configs, runs, frame,
                   cur, shutdown_todo, switch_state>>
    /\ UNCHANGED app

----------------------------------------------------------------------------
(* MealieMateApp.shutdown, run by the main task while the processor task   *)
(* is still alive (lines 172-190)                                          *)

(* list(self._running_tasks.keys()): the keys in insertion order, which is *)
(* the order of the run ids                                                *)
RECURSIVE KeysInOrder(_)
KeysInOrder(keys) ==
    IF keys = {} THEN <<>>
    ELSE LET p == CHOOSE k \in keys : \A o \in keys : running_tasks[k] <= running_tasks[o]
         IN <<p>> \o KeysInOrder(keys \ {p})

ShutdownBegin ==
    /\ frame["shutdown"].pc = "not_started"
    /\ shutdown_todo' = KeysInOrder(get_running_plugins)
    /\ frame' = [frame EXCEPT !["shutdown"].pc = "loop"]
    /\ UNCHANGED <<running_tasks, running_plugin_instances, plugin_configs, runs, cur,
                   last, switch_state, handled>>
    /\ UNCHANGED app

ShutdownStop ==
    /\ frame["shutdown"].pc = "loop"
    /\ shutdown_todo # <<>>
    /\ Stops("shutdown", Head(shutdown_todo), cur)
    /\ UNCHANGED <<plugin_configs, handled>>
    /\ UNCHANGED app

(* every plugin of the snapshot was stopped: the offline status is published *)
ShutdownOffline ==
    /\ frame["shutdown"].pc = "loop"
    /\ shutdown_todo = <<>>
    /\ frame' = [frame EXCEPT !["shutdown"].pc = "offline"]
    /\ UNCHANGED <<running_tasks, running_plugin_instances, plugin_configs, runs, cur,
                   last, shutdown_todo, switch_state, handled>>
    /\ UNCHANGED app

(* the steps of shutdown() after the plugins are stopped (lines 192-206)   *)

(* SystemService.stop_all_tasks: the heartbeat and the midnight task are   *)
(* cancelled and awaited                                                   *)
ShutdownStopTasks ==
    /\ frame["shutdown"].pc = "offline"
    /\ frame' = [frame EXCEPT !["shutdown"].pc = "system"]
    /\ app' = [app EXCEPT !.state = [t \in TaskNames |->
                                       IF t \in {"heartbeat", "midnight"} /\ @[t] = "running"
                                       THEN "cancelling" ELSE @[t]]]
    /\ UNCHANGED manager

(* lines 196-198, once the gather of stop_all_tasks is over: every task of *)
(* _background_tasks that is not done is cancelled                         *)
ShutdownCancel ==
    /\ frame["shutdown"].pc = "system"
    /\ \A t \in {"heartbeat", "midnight"} : app.state[t] \in {"none", "done"}
    /\ frame' = [frame EXCEPT !["shutdown"].pc = "gather"]
    /\ app' = [app EXCEPT !.state = [t \in TaskNames |->
                                       IF @[t] \in {"none", "done"} THEN @[t]
                                       ELSE "cancelling"]]
    /\ UNCHANGED manager

(* The CancelledError reaches a background task at the await it is         *)
(* suspended in.  The listener, the heartbeat and the midnight task catch  *)
(* it and end.  The processor ends when the error leaves process_message;  *)
(* stop_plugin catches the CancelledError that leaves wait_for (lines      *)
(* 122-125), wait_for having cancelled the plugin task once more, and the  *)
(* processor goes on.                                                      *)
BackgroundCancelled(t) ==
    /\ app.state[t] = "cancelling"
    /\ IF t = "processor" /\ frame[t].pc = "stop_wait"
       THEN /\ app' = [app EXCEPT !.state[t] = "running"]
            /\ runs' = IF runs[frame[t].tid].pc = "done" THEN runs
                       ELSE [runs EXCEPT ![frame[t].tid].cancel = TRUE]
            /\ UNCHANGED <<frame, cur, last>>
       ELSE /\ app' = [app EXCEPT !.state[t] = "done",
                                  !.calls = @ \ {t},
                                  !.connected = IF t = "listener" THEN FALSE ELSE @]
            /\ frame' = IF t = "processor" THEN [frame EXCEPT ![t] = IdleFrame] ELSE frame
            /\ cur' = IF t = "processor" THEN NoCall ELSE cur
            /\ last' = IF t = "processor" /\ cur.active THEN Ended(cur, "cancelled") ELSE last
            /\ UNCHANGED runs
    /\ UNCHANGED <<running_tasks, running_plugin_instances, plugin_configs, shutdown_todo,
                   switch_state, handled>>

(* the gather of _background_tasks (return_exceptions=True) is over when   *)
(* every task is done; the list is cleared and shutdown() returns to       *)
(* start(), which returns                                                  *)
ShutdownReturn ==
    /\ frame["shutdown"].pc = "gather"
    /\ \A i \in 1..Len(app.tasks) : app.state[app.tasks[i]] = "done"
    /\ frame' = [frame EXCEPT !["shutdown"].pc = "done"]
    /\ app' = [app EXCEPT !.tasks = <<>>, !.main = "returned"]
    /\ UNCHANGED manager

ShutdownTail ==
    \/ ShutdownStopTasks
    \/ ShutdownCancel
    \/ \E t \in TaskNames : BackgroundCancelled(t)
    \/ ShutdownReturn

----------------------------------------------------------------------------
(* MealieMateApp.start and the background tasks it creates; what           *)
(* process_message does to the plugins is left out here                    *)

(* lines 105-114 without the order of the tasks: the processor is created  *)
(* together with the listener                                              *)
StartListenerAndProcessor ==
    /\ app.main = "start"
    /\ app' = [app EXCEPT !.main = "wait_conn",
                          !.tasks = @ \o <<"listener", "processor">>,
                          !.state["listener"] = "new", !.state["processor"] = "running"]
    /\ UNCHANGED <<manager, frame>>

(* lines 105-114: the listener task is created, start() waits for the      *)
(* connection                                                              *)
StartListener ==
    /\ app.main = "start"
    /\ app' = [app EXCEPT !.main = "wait_conn", !.tasks = Append(@, "listener"),
                          !.state["listener"] = "new"]
    /\ UNCHANGED <<manager, frame>>

(* _mqtt_listener returns at once when MQTT_BROKER is not set (lines       *)
(* 297-304), otherwise it opens the client                                 *)
ListenerStart ==
    /\ app.state["listener"] = "new"
    /\ app' = [app EXCEPT !.state["listener"] = IF app.broker THEN "connecting" ELSE "done"]
    /\ UNCHANGED <<manager, frame>>

(* lines 311-327: the client is connected, the event is set, which ends    *)
(* the wait of start(); the control topics are subscribed                  *)
ListenerConnected ==
    /\ app.state["listener"] = "connecting"
    /\ app' = [app EXCEPT !.state["listener"] = "listening", !.connected = TRUE,
                          !.main = IF @ = "wait_conn" THEN "drain" ELSE @]
    /\ UNCHANGED <<manager, frame>>

(* lines 338-344: an error of the client ends the listener; the event is   *)
(* cleared                                                                 *)
ListenerFails ==
    /\ app.state["listener"] \in {"connecting", "listening"}
    /\ app' = [app EXCEPT !.state["listener"] = "done", !.connected = FALSE]
    /\ UNCHANGED <<manager, frame>>

(* lines 330-335: a received message is put on the queue *)
Enqueue ==
    /\ app.state["listener"] = "listening"
    /\ app.arrived < MaxMessages
    /\ app' = [app EXCEPT !.queue = Append(@, app.arrived + 1), !.arrived = @ + 1]
    /\ UNCHANGED <<manager, frame>>

(* without the connection-timeout arm (lines 115-122): start() goes on to  *)
(* the setup                                                               *)
ConnectTimeoutIgnored ==
    /\ app.main = "wait_conn"
    /\ app' = [app EXCEPT !.main = "drain"]
    /\ UNCHANGED <<manager, frame>>

(* lines 115-122: the event was not set within 30 s; shutdown() is called  *)
(* and start() returns after it                                            *)
ConnectTimeout ==
    /\ app.main = "wait_conn"
    /\ app' = [app EXCEPT !.main = "shutdown", !.aborted = TRUE]
    /\ frame' = [frame EXCEPT !["shutdown"].pc = "not_started"]
    /\ UNCHANGED manager

(* _process_retained_messages (lines 253-276): one retained message is     *)
(* received and process_message is awaited for it                          *)
DrainCall ==
    /\ app.main = "drain"
    /\ app.drained < MaxMessages
    /\ app' = [app EXCEPT !.main = "drain_call", !.drained = @ + 1,
                          !.calls = @ \cup {"main"}]
    /\ UNCHANGED <<manager, frame>>

(* process_message returns or raises (lines 268-276) *)
DrainReturn ==
    /\ app.main = "drain_call"
    /\ app' = [app EXCEPT !.main = "drain", !.calls = @ \ {"main"}]
    /\ UNCHANGED <<manager, frame>>

(* The retained messages of the broker, one for a topic: the number, text  *)
(* and switch messages of the model (lines 239-241)                        *)
RetainedMessages ==
    {m \in ConfigMessages : Routed[m].kind \in {"number", "switch", "text"}}

(* a broker that retains one main-switch ON message and one number        *)
(* message                                                                 *)
RetainedControl ==
    {Msg(Topic(switch, neapolitan_pizza, set), ON),
     Msg(Topic(number, neapolitan_pizza \o <<"_">> \o total_time, set), <<"3","0">>)}

(* _mqtt_listener (lines 324-335): the listener's client subscribes the    *)
(* same switch, number and text topics as the client of the drain (lines   *)
(* 239-241); the broker sends the retained message of a topic to every new *)
(* subscription, and the listener puts it on the queue                     *)
ListenerRetained(m) ==
    /\ app.state["listener"] = "listening"
    /\ m \in RetainedControl
    /\ \A k \in 1..Len(app.redelivered) : app.redelivered[k].topic # m.topic
    /\ app' = [app EXCEPT !.redelivered = Append(@, m)]
    /\ UNCHANGED <<manager, frame>>

(* _process_retained_messages receives the retained message m (lines       *)
(* 262-266) and calls process_message for it                               *)
RetainedCall(m) ==
    /\ app.main = "drain"
    /\ m \in RetainedMessages \cup RetainedControl
    /\ \A k \in 1..Len(app.seen) : app.seen[k].topic # m.topic
    /\ Len(app.seen) < MaxMessages
    /\ app' = [app EXCEPT !.main = "drain_call", !.drained = @ + 1,
                          !.seen = Append(@, m), !.calls = @ \cup {"main"}]
    /\ UNCHANGED <<manager, frame>>

(* process_message has returned for the message (lines 268-269) *)
RetainedReturn ==
    /\ app.main = "drain_call"
    /\ handled = Len(app.seen)
    /\ ~cur.active
    /\ app' = [app EXCEPT !.main = "drain", !.calls = @ \ {"main"}]
    /\ UNCHANGED <<manager, frame>>

(* no message for 0.5 s, or 5 s are over (lines 255-273) *)
DrainEnd ==
    /\ app.main = "drain"
    /\ app' = [app EXCEPT !.main = "setup"]
    /\ UNCHANGED <<manager, frame>>

(* the entities are set up with the values of the constructor *)
SetupEntitiesDefaults ==
    /\ app.main = "setup"
    /\ app' = [app EXCEPT !.main = "reset", !.entities = TRUE,
                          !.published = [p \in PluginIds |-> Shown(Inject(p), p)]]
    /\ switch_state' = [p \in PluginIds |-> OFF]
    /\ UNCHANGED <<running_tasks, running_plugin_instances, plugin_configs, runs, cur,
                   last, shutdown_todo, handled, frame>>

(* lines 132-139: setup_mqtt_entities, reset_special_sensors.  For every   *)
(* plugin a transient instance is built, the stored configuration is       *)
(* applied to it (system_service.py 66-70) and its entities are set up     *)
(* with the values it holds.  No process_message runs meanwhile: the drain *)
(* is over and the processor is not yet created.  setup_mqtt_switch        *)
(* publishes OFF as the initial state of every main switch (ha_mqtt.py     *)
(* 134-135, called at system_service.py 76-77).                            *)
SetupEntities ==
    /\ app.main = "setup"
    /\ app' = [app EXCEPT !.main = "reset", !.entities = TRUE,
                          !.published = [p \in PluginIds |->
                                           Shown(apply_config_to_plugin(Inject(p), p), p)]]
    /\ switch_state' = [p \in PluginIds |-> OFF]
    /\ UNCHANGED <<running_tasks, running_plugin_instances, plugin_configs, runs, cur,
                   last, shutdown_todo, handled, frame>>

(* lines 141-154: the processor, the heartbeat and the midnight task are   *)
(* created                                                                 *)
StartTasks ==
    /\ app.main = "reset"
    /\ app' = [app EXCEPT !.main = "serving",
                          !.tasks = @ \o <<"processor", "heartbeat", "midnight">>,
                          !.state = [t \in TaskNames |->
                                       IF t = "listener" THEN @[t] ELSE "running"]]
    /\ UNCHANGED <<manager, frame>>

(* a queue that hands out the newest message *)
TakesLast(queue) == [message |-> queue[Len(queue)], rest |-> SubSeq(queue, 1, Len(queue) - 1)]

(* asyncio.Queue.get: the oldest message *)
Takes(queue) == [message |-> Head(queue), rest |-> Tail(queue)]

(* _mqtt_message_processor (lines 360-364): a message is taken from the    *)
(* queue and process_message is awaited for it                             *)
ProcessorGet ==
    /\ app.state["processor"] = "running"
    /\ app.queue # <<>>
    /\ app' = [app EXCEPT !.state["processor"] = "call",
                          !.queue = Takes(app.queue).rest,
                          !.begun = Takes(app.queue).message,
                          !.calls = @ \cup {"processor"}]
    /\ UNCHANGED <<manager, frame>>

(* process_message returns (task_done, line 365) or raises (the error is   *)
(* reported, lines 372-377); the loop goes on                              *)
ProcessorReturn ==
    /\ app.state["processor"] = "call"
    /\ app' = [app EXCEPT !.state["processor"] = "running", !.calls = @ \ {"processor"}]
    /\ UNCHANGED <<manager, frame>>

(* lines 158-166: the shutdown event is set by a signal, shutdown() is     *)
(* called                                                                  *)
Signal ==
    /\ app.main = "serving"
    /\ frame["shutdown"].pc = "idle"
    /\ app' = [app EXCEPT !.main = "shutdown"]
    /\ frame' = [frame EXCEPT !["shutdown"].pc = "not_started"]
    /\ UNCHANGED manager

(* SystemService._send_status_heartbeat.  beat.pc is where the task is in  *)
(* its loop, beat.after what brought it to the present attempt, and         *)
(* beat.result how the last attempt ended.                                  *)

(* an iteration whose error ends the task *)
BeatAttemptEnds ==
    /\ app.state["heartbeat"] = "running"
    /\ app.beat.pc = "attempt"
    /\ \E result \in {"sent", "failed", "raised"} :
          /\ result = "sent" => app.connected
          /\ app' = [app EXCEPT !.beat.result = result, !.beat.elapsed = 0,
                                !.beat.pc = IF result = "raised" THEN "attempt" ELSE "sleep",
                                !.state["heartbeat"] =
                                    IF result = "raised" THEN "done" ELSE @]
    /\ UNCHANGED <<manager, frame>>

(* lines 273-286: set_binary_sensor_state publishes ON and returns True    *)
(* when the listener's client is there, or returns False (no client, or a  *)
(* publish error it has logged; ha_mqtt.py 706-717), and the task sleeps   *)
(* for an hour; an exception out of the service is logged and the task     *)
(* sleeps for a minute                                                     *)
BeatAttempt ==
    /\ app.state["heartbeat"] = "running"
    /\ app.beat.pc = "attempt"
    /\ \E result \in {"sent", "failed", "raised"} :
          /\ result = "sent" => app.connected
          /\ app' = [app EXCEPT !.beat.result = result, !.beat.elapsed = 0,
                                !.beat.pc = IF result = "raised" THEN "backoff" ELSE "sleep"]
    /\ UNCHANGED <<manager, frame>>

(* the length of the sleep the task is in (lines 279 and 286) *)
BeatSleep == IF app.beat.pc = "backoff" THEN HeartbeatBackoff ELSE HeartbeatInterval

(* time passes while the task sleeps *)
BeatTick ==
    /\ app.state["heartbeat"] = "running"
    /\ app.beat.pc \in {"sleep", "backoff"}
    /\ app.beat.elapsed < BeatSleep
    /\ app' = [app EXCEPT !.beat.elapsed = IF @ + TimeStep > BeatSleep
                                           THEN BeatSleep ELSE @ + TimeStep]
    /\ UNCHANGED <<manager, frame>>

(* the sleep is over: the next iteration of `while True` (line 272) *)
BeatWake ==
    /\ app.state["heartbeat"] = "running"
    /\ app.beat.pc \in {"sleep", "backoff"}
    /\ app.beat.elapsed >= BeatSleep
    /\ app' = [app EXCEPT !.beat.pc = "attempt", !.beat.elapsed = 0,
                          !.beat.after = IF app.beat.pc = "backoff" THEN "backoff"
                                         ELSE "interval"]
    /\ UNCHANGED <<manager, frame>>

HeartbeatSteps ==
    \/ BeatAttempt
    \/ BeatTick
    \/ BeatWake

(* the entry point of the service: the exit status after start() returned *)
(* SystemService._check_midnight_reset.  midnight.today is the day of the  *)
(* month of the clock, midnight.now the day the task has read last,        *)
(* midnight.rolled the midnights that have passed, midnight.reset_at what  *)
(* rolled was when reset_special_sensors was called last, midnight.resets  *)
(* the calls of reset_special_sensors.                                     *)

(* the clock passes a midnight *)
DayRollsOver ==
    /\ app.midnight.rolled < MaxRollovers
    /\ app' = [app EXCEPT !.midnight.today = (@ % MonthDays) + 1,
                          !.midnight.rolled = @ + 1]
    /\ UNCHANGED <<manager, frame>>

(* lines 231-239: the day is read; on a day other than last_reset_day      *)
(* reset_special_sensors is called and awaited, otherwise the task sleeps; *)
(* an error of the clock takes the task to the except arm (lines 248-250)  *)
MidnightPoll ==
    /\ app.state["midnight"] = "running"
    /\ app.midnight.pc = "poll"
    /\ \E failed \in BOOLEAN :
         app' = IF failed
                THEN [app EXCEPT !.midnight.pc = "backoff"]
                ELSE IF app.midnight.today # app.midnight.last_reset_day
                THEN [app EXCEPT !.midnight.pc = "reset",
                                 !.midnight.now = app.midnight.today,
                                 !.midnight.resets = @ + 1,
                                 !.midnight.reset_at = app.midnight.rolled]
                ELSE [app EXCEPT !.midnight.pc = "sleep",
                                 !.midnight.now = app.midnight.today]
    /\ UNCHANGED <<manager, frame>>

(* reset_special_sensors returns and the day is not recorded *)
MidnightRecordForgets ==
    /\ app.state["midnight"] = "running"
    /\ app.midnight.pc = "reset"
    /\ app' = [app EXCEPT !.midnight.pc = "sleep"]
    /\ UNCHANGED <<manager, frame>>

(* lines 239-245: reset_special_sensors returns (it catches the errors of  *)
(* each plugin), the day read is recorded, the task sleeps                 *)
MidnightRecord ==
    /\ app.state["midnight"] = "running"
    /\ app.midnight.pc = "reset"
    /\ app' = [app EXCEPT !.midnight.pc = "sleep",
                          !.midnight.last_reset_day = app.midnight.now]
    /\ UNCHANGED <<manager, frame>>

(* the sleep of 60 s of line 245 or of line 250 is over *)
MidnightWake ==
    /\ app.state["midnight"] = "running"
    /\ app.midnight.pc \in {"sleep", "backoff"}
    /\ app' = [app EXCEPT !.midnight.pc = "poll"]
    /\ UNCHANGED <<manager, frame>>

MidnightSteps ==
    \/ MidnightPoll
    \/ MidnightRecord
    \/ MidnightWake

Exit ==
    /\ app.main = "returned"
    /\ app.exit = "none"
    /\ app' = [app EXCEPT !.exit = IF app.aborted THEN "nonzero" ELSE "zero"]
    /\ UNCHANGED <<manager, frame>>

----------------------------------------------------------------------------
(* Specifications *)

Task(i) ==
    \/ TaskStart(i)
    \/ ExecuteReturn(i)
    \/ ExecuteRaise(i)
    \/ ExecuteCancelled(i)
    \/ ExecuteIgnoresCancel(i)
    \/ WrapperCancelled(i)
    \/ WrapperFinally(i)

Stop(c) ==
    \/ StopPop(c)
    \/ StopTick(c)
    \/ StopResume(c)
    \/ StopFinish(c)

Shutdown ==
    \/ ShutdownBegin
    \/ ShutdownStop
    \/ ShutdownOffline

(* two plugins are started and stopped by main-switch messages and by      *)
(* shutdown                                                                *)
Next ==
    \/ \E m \in {n \in MainSwitchMessages : Routed[n].plugin # ingredient_merger} :
         LET r == Routed[m] IN SwitchOn(m, r) \/ SwitchOff(m, r)
    \/ StartRegister
    \/ StartReturn
    \/ \E i \in AllRunIds : Task(i)
    \/ \E c \in Callers : Stop(c)
    \/ Shutdown

Spec == Init /\ [][Next]_vars

(* the event loop runs every supervised task and every manager call that   *)
(* can run; an execute() that is not waited for by anyone ends             *)
SpecFair ==
    /\ Spec
    /\ \A i \in AllRunIds : WF_vars(Task(i))
    /\ \A c \in Callers : WF_vars(Stop(c))
    /\ WF_vars(StartRegister \/ StartReturn)

(* every kind of control message is handled; one plugin is started and     *)
(* stopped                                                                 *)
NextDispatch ==
    \/ \E m \in {n \in MainSwitchMessages : Routed[n].plugin = neapolitan_pizza} :
         LET r == Routed[m] IN SwitchOn(m, r) \/ SwitchOff(m, r)
    \/ StartReturn
    \/ \E i \in AllRunIds : Task(i)
    \/ \E c \in Callers : Stop(c)
    \/ Shutdown
    \/ \E m \in ConfigMessages :
         LET r == Routed[m]
         IN \/ UnknownPlugin(m, r)
            \/ SwitchIgnored(m, r)
            \/ AuxSwitch(m, r)
            \/ NumberUpdate(m, r)
            \/ TextUpdate(m, r)
            \/ ButtonPress(m, r)
            \/ UnknownCommand(m, r)
    \/ AuxSwitchReturn

SpecDispatch == Init /\ [][NextDispatch]_vars

(* one plugin is started and stopped; a start may fail *)
NextManager ==
    \/ \E m \in {n \in MainSwitchMessages : Routed[n].plugin = neapolitan_pizza} :
         LET r == Routed[m] IN SwitchOn(m, r) \/ SwitchOff(m, r) \/ StartFails(m, r)
    \/ StartUnregistered(thermostat)
    \/ StartReturn
    \/ \E i \in AllRunIds : Task(i)
    \/ \E c \in Callers : Stop(c)
    \/ Shutdown

SpecManager == Init /\ [][NextManager]_vars

(* the two plugins with decision buttons are started and run to their end  *)
(* while their buttons are pressed or not                                  *)
Decides(i) ==
    \/ TaskStart(i)
    \/ Present(i)
    \/ Displayed(i)
    \/ Tick(i)
    \/ DecisionMade(i)
    \/ DecisionTimedOut(i)
    \/ ExecuteReturn(i)
    \/ WrapperFinally(i)

NextDecision ==
    \/ \E m \in {n \in MainSwitchMessages :
                    Routed[n].plugin # neapolitan_pizza /\ n.payload = ON} :
         SwitchOn(m, Routed[m])
    \/ StartRegister
    \/ StartReturn
    \/ \E m \in DecisionMessages : ButtonPress(m, Routed[m])
    \/ \E i \in AllRunIds : Decides(i)

SpecDecision == Init /\ [][NextDecision]_vars

(* _mqtt_listener (lines 331-335): a control message is put on the queue.  *)
(* The queue of the processor is the messages that have arrived and have   *)
(* not been dispatched: app.arrived - handled of them.                     *)
ListenerPut ==
    /\ app.state["listener"] = "listening"
    /\ app.arrived < MaxMessages
    /\ app' = [app EXCEPT !.arrived = @ + 1]
    /\ UNCHANGED <<manager, frame>>

(* the processor of the serving application: what makes it take the next   *)
(* message from the queue and dispatch it                                  *)
ProcessorDispatches ==
    \E m \in MainSwitchMessages \cup DecisionMessages :
       LET r == Routed[m]
       IN SwitchOn(m, r) \/ SwitchOff(m, r) \/ ButtonPress(m, r)

(* the steps the event loop owes to a supervised task: its first step, the *)
(* delivery of a cancellation, and the wrapper around execute()            *)
Scheduled(i) ==
    \/ TaskStart(i)
    \/ ExecuteCancelled(i)
    \/ ExecuteIgnoresCancel(i)
    \/ WrapperCancelled(i)
    \/ WrapperFinally(i)

(* messages arrive while the ingredient merger and the pizza plugin are    *)
(* started, wait for decisions and are stopped by the processor            *)
NextQueue ==
    \/ ListenerPut
    \/ \E m \in {n \in MainSwitchMessages :
                    Routed[n].plugin \in {ingredient_merger, neapolitan_pizza}} :
         LET r == Routed[m] IN SwitchOn(m, r) \/ SwitchOff(m, r)
    \/ \E m \in {n \in DecisionMessages : Routed[n].plugin = ingredient_merger} :
         ButtonPress(m, Routed[m])
    \/ StartReturn
    \/ \E i \in AllRunIds : Task(i) \/ Present(i) \/ Displayed(i) \/ Tick(i)
                                \/ DecisionMade(i)
                                \/ DecisionTimedOut(i)
    \/ Stop("processor")

SpecQueue == InitQueue /\ [][NextQueue]_vars

(* the event loop runs the processor, the manager calls it makes, and the  *)
(* supervised tasks that have a step to take; no execute() is required to  *)
(* end, and no time is required to pass for a waiting plugin               *)
SpecQueueFair ==
    /\ SpecQueue
    /\ WF_vars(ProcessorDispatches)
    /\ WF_vars(StartReturn)
    /\ WF_vars(Stop("processor"))
    /\ \A i \in AllRunIds : WF_vars(Scheduled(i))

(* the steps of a supervised task whose execute() leaves when cancelled *)
Honours(i) ==
    \/ TaskStart(i)
    \/ ExecuteCancelled(i)
    \/ WrapperCancelled(i)
    \/ WrapperFinally(i)

(* the steps of a stop_plugin call of a plugin that leaves when cancelled *)
StopsHonoured(c) == StopPop(c) \/ StopResume(c) \/ StopFinish(c)

(* messages arrive while the pizza plugin is started and stopped by the    *)
(* processor and ends on its own; shutdown() stops it and cancels the      *)
(* background tasks                                                        *)
NextContain ==
    \/ ListenerPut
    \/ \E m \in {n \in MainSwitchMessages : Routed[n].plugin = neapolitan_pizza} :
         LET r == Routed[m] IN SwitchOn(m, r) \/ SwitchOff(m, r)
    \/ StartReturn
    \/ \E i \in AllRunIds : Honours(i) \/ ExecuteReturn(i)
    \/ \E c \in Callers : StopsHonoured(c)
    \/ Shutdown
    \/ ShutdownTail

SpecContain == InitQueue /\ [][NextContain]_vars

(* the event loop runs the processor, the manager calls and the supervised *)
(* tasks that have a step to take                                          *)
SpecContainFair ==
    /\ SpecContain
    /\ WF_vars(ProcessorDispatches)
    /\ WF_vars(StartReturn)
    /\ \A c \in Callers : WF_vars(StopsHonoured(c))
    /\ \A i \in AllRunIds : WF_vars(Honours(i))

(* The resolution of a raw identifier against a registry.  The call in     *)
(* progress carries the registry and the raw identifier, the finished call *)
(* the plugin_id and the entity_id resolved for them.                      *)

Letters == {"a", "b", "_"}

RECURSIVE Words(_)
Words(n) ==
    IF n = 0 THEN {<<>>}
    ELSE LET shorter == Words(n - 1)
         IN shorter \cup {Append(w, c) : w \in shorter, c \in Letters}

(* plugin ids of which some are prefixes of others *)
SomeIds == {<<"a">>, <<"a", "b">>, <<"a", "_", "b">>, <<"b">>}

RECURSIVE Registries(_)
Registries(n) ==
    IF n = 0 THEN {<<>>}
    ELSE LET shorter == Registries(n - 1)
         IN shorter \cup {Append(reg, id) : reg \in shorter,
                              id \in SomeIds}

DistinctIds(reg) == \A i, j \in 1..Len(reg) : i # j => reg[i] # reg[j]

Asked(registry, raw_id) ==
    [registry |-> registry] @@ [NoCall EXCEPT !.active = TRUE, !.topic = raw_id]

InitResolve ==
    /\ running_tasks = EmptyMap
    /\ running_plugin_instances = EmptyMap
    /\ plugin_configs = EmptyMap
    /\ runs = <<>>
    /\ cur \in {Asked(reg, raw_id) :
                   reg \in {r \in Registries(MaxRegistry) : r # <<>> /\ DistinctIds(r)},
                   raw_id \in Words(MaxRawLen) \ {<<>>}}
    /\ last = NoCall
    /\ shutdown_todo = <<>>
    /\ switch_state = [p \in PluginIds |-> OFF]
    /\ handled = 0
    /\ frame = [c \in Callers |-> IdleFrame]
    /\ app = Serving

Resolves ==
    /\ cur.active
    /\ LET r == Resolved(cur.registry, cur.topic)
       IN last' = [cur EXCEPT !.active = FALSE, !.plugin = r.plugin,
                              !.entity = r.entity, !.outcome = "resolved"]
    /\ cur' = NoCall
    /\ UNCHANGED <<running_tasks, running_plugin_instances, plugin_configs, runs, frame,
                   shutdown_todo, switch_state, handled, app>>

SpecResolve == InitResolve /\ [][Resolves]_vars

(* the midnight task of the serving application, the clock and shutdown() *)
NextMidnight ==
    \/ DayRollsOver
    \/ MidnightSteps
    \/ ShutdownBegin
    \/ ShutdownOffline
    \/ ShutdownTail

SpecMidnight == Init /\ [][NextMidnight]_vars

(* the event loop runs the midnight task when its sleep is over *)
SpecMidnightFair == SpecMidnight /\ WF_vars(MidnightSteps)

(* the pizza plugin and the messages of identifiers that start with its id *)
NextNear ==
    \/ \E m \in NearMessages \cup {n \in MainSwitchMessages :
                                      Routed[n].plugin = neapolitan_pizza} :
         LET r == Routed[m]
         IN SwitchOn(m, r) \/ SwitchOff(m, r) \/ NumberUpdate(m, r)
    \/ StartReturn
    \/ \E i \in AllRunIds : Task(i)
    \/ Stop("processor")

SpecNear == Init /\ [][NextNear]_vars

(* the ingredient merger is started, waits for decisions and is stopped by *)
(* shutdown while its buttons are pressed                                  *)
NextPress ==
    \/ \E m \in {n \in MainSwitchMessages :
                    Routed[n].plugin = ingredient_merger /\ n.payload = ON} :
         SwitchOn(m, Routed[m])
    \/ StartReturn
    \/ \E m \in {n \in DecisionMessages : Routed[n].plugin = ingredient_merger} :
         ButtonPress(m, Routed[m])
    \/ \E i \in AllRunIds : Decides(i) \/ ExecuteCancelled(i)
    \/ \E c \in Callers : StopPop(c) \/ StopResume(c) \/ StopFinish(c)
    \/ Shutdown

SpecPress == Init /\ [][NextPress]_vars

(* the event loop runs every task and every manager call that can run, and *)
(* time passes                                                             *)
SpecPressFair ==
    /\ SpecPress
    /\ \A i \in AllRunIds : WF_vars(Decides(i) \/ ExecuteCancelled(i))
    /\ \A c \in Callers : WF_vars(StopPop(c) \/ StopResume(c) \/ StopFinish(c))
    /\ WF_vars(StartReturn)

(* the event loop runs every task that can run, and time passes *)
SpecDecisionFair == SpecDecision /\ \A i \in AllRunIds : WF_vars(Decides(i))

(* plugins are started and stopped while shutdown() runs to its end *)
NextShutdown ==
    \/ Next
    \/ ShutdownTail

SpecShutdown == Init /\ [][NextShutdown]_vars

(* the application from start() to the exit of the process *)
NextApp ==
    \/ StartListener
    \/ ListenerStart
    \/ ListenerConnected
    \/ ListenerFails
    \/ Enqueue
    \/ ConnectTimeout
    \/ DrainCall
    \/ DrainReturn
    \/ DrainEnd
    \/ SetupEntities
    \/ StartTasks
    \/ ProcessorGet
    \/ ProcessorReturn
    \/ Signal
    \/ ShutdownBegin
    \/ ShutdownOffline
    \/ ShutdownTail
    \/ Exit

SpecApp == InitApp /\ [][NextApp]_vars

(* the steps of start() that no one has to wait for: the timeout of the    *)
(* wait for the connection and the signal are left to the environment      *)
MainSteps ==
    \/ StartListener
    \/ DrainCall
    \/ DrainReturn
    \/ DrainEnd
    \/ SetupEntities
    \/ StartTasks

(* the steps of the listener task; the messages that are published reach   *)
(* a client that listens                                                   *)
ListenerSteps ==
    \/ ListenerStart
    \/ ListenerConnected
    \/ Enqueue

ProcessorSteps ==
    \/ ProcessorGet
    \/ ProcessorReturn

(* a plugin with sensors to reset is started and stopped while its         *)
(* switch is set                                                           *)
NextOrder ==
    \/ \E m \in {n \in MainSwitchMessages : Routed[n].plugin = shopping_list_generator} :
         LET r == Routed[m] IN SwitchOn(m, r) \/ SwitchOff(m, r)
    \/ StartRegister
    \/ StartReturn
    \/ \E i \in AllRunIds : Task(i)
    \/ \E c \in Callers : Stop(c)
    \/ Shutdown
    \/ \E m \in {n \in ConfigMessages : Routed[n].plugin = shopping_list_generator
                                        /\ Routed[n].kind = "switch"} :
         AuxSwitch(m, Routed[m])
    \/ AuxSwitchReturn

SpecOrder == Init /\ [][NextOrder]_vars

(* start() with the handling of the retained messages *)
NextRetained ==
    \/ StartListener
    \/ ListenerStart
    \/ ListenerConnected
    \/ \E m \in RetainedMessages : RetainedCall(m)
    \/ \E m \in RetainedMessages :
         LET r == Routed[m]
         IN \/ UnknownPlugin(m, r)
            \/ NumberUpdate(m, r)
            \/ TextUpdate(m, r)
            \/ AuxSwitch(m, r)
            \/ SwitchIgnored(m, r)
    \/ AuxSwitchReturn
    \/ RetainedReturn
    \/ DrainEnd
    \/ SetupEntities
    \/ StartTasks

SpecRetained == InitApp /\ [][NextRetained]_vars

(* start() with a broker that retains a main-switch ON message: the drain, *)
(* the listener that receives the retained messages for its own            *)
(* subscription, and the processor that takes them from the queue          *)
NextRedelivered ==
    \/ StartListener
    \/ ListenerStart
    \/ ListenerConnected
    \/ \E m \in RetainedControl : ListenerRetained(m) \/ RetainedCall(m)
    \/ \E m \in RetainedControl :
         LET r == Routed[m] IN SwitchOn(m, r) \/ NumberUpdate(m, r)
    \/ StartReturn
    \/ \E i \in AllRunIds : TaskStart(i) \/ ExecuteReturn(i) \/ WrapperFinally(i)
    \/ RetainedReturn
    \/ DrainEnd
    \/ SetupEntities
    \/ StartTasks

SpecRedelivered == InitApp /\ [][NextRedelivered]_vars

(* start() with a broker that retains a main-switch ON message, and the    *)
(* plugin the drain starts                                                 *)
NextDrained ==
    \/ StartListener
    \/ ListenerStart
    \/ ListenerConnected
    \/ \E m \in RetainedControl : RetainedCall(m)
    \/ \E m \in RetainedControl :
         LET r == Routed[m] IN SwitchOn(m, r) \/ NumberUpdate(m, r)
    \/ StartReturn
    \/ \E i \in AllRunIds : TaskStart(i) \/ ExecuteReturn(i) \/ ExecuteRaise(i)
                                \/ WrapperFinally(i)
    \/ RetainedReturn
    \/ DrainEnd
    \/ SetupEntities
    \/ StartTasks

SpecDrained == InitApp /\ [][NextDrained]_vars

(* the application with the iterations of the heartbeat task *)
NextHeartbeat ==
    \/ NextApp
    \/ HeartbeatSteps

SpecHeartbeat == InitApp /\ [][NextHeartbeat]_vars

(* the event loop runs the heartbeat task when it can run, and time passes *)
SpecHeartbeatFair == SpecHeartbeat /\ WF_vars(HeartbeatSteps)

(* the event loop runs every task that can run *)
SpecAppFair ==
    /\ SpecApp
    /\ WF_vars(MainSteps)
    /\ WF_vars(ListenerSteps)
    /\ WF_vars(ProcessorSteps)

----------------------------------------------------------------------------
(* Properties of the plugin manager                                        *)

(* C1: for every plugin id, the id is a key of the running-task map if and *)
(* only if it is a key of the running-instance map, at every observable    *)
(* point (every state of the model is a suspension point of start_plugin,  *)
(* stop_plugin or the execution wrapper).                                  *)
C1_RunningMapsAgree ==
    \A p \in PluginIds :
        (p \in DOMAIN running_tasks) <=> (p \in DOMAIN running_plugin_instances)

(* the process_message call that a step of the processor opens *)
Opened == IF cur'.active THEN cur' ELSE last'

(* a step in which start_plugin(p) records a new instance and task *)
StartSucceeds(p) == Len(runs') > Len(runs) /\ runs'[Len(runs')].plugin = p

(* a step in which stop_plugin(p) takes the task of p out of the map *)
StopPops(p) ==
    \E c \in Callers :
        frame[c].pc = "stop_off" /\ frame[c].plugin = p /\ frame'[c].pc = "stop_wait"

(* a step in which a supervised task of p ends *)
Completes(p) ==
    \E i \in RunIds : runs[i].plugin = p /\ runs[i].pc # "done" /\ runs'[i].pc = "done"

(* C2: a start_plugin(p) call made while p is running returns false,       *)
(* constructs no second instance and schedules no second task; and         *)
(* start_plugin(p) never succeeds twice without a stop_plugin(p) or a      *)
(* completion of p in between: it succeeds only when p has no running      *)
(* task, leaves p with a running task, and p loses its running task only   *)
(* in a step of stop_plugin(p) or in the completion of a task of p.        *)
C2_AtMostOneRunning ==
    [][\A p \in PluginIds :
          /\ (/\ handled' # handled
              /\ Opened.invoked = "start_plugin" /\ Opened.plugin = p
              /\ p \in DOMAIN running_tasks)
               => /\ Opened.result = "false"
                  /\ runs' = runs
                  /\ running_tasks' = running_tasks
                  /\ running_plugin_instances' = running_plugin_instances
          /\ StartSucceeds(p)
               => p \notin DOMAIN running_tasks /\ p \in DOMAIN running_tasks'
          /\ (p \in DOMAIN running_tasks /\ p \notin DOMAIN running_tasks')
               => StopPops(p) \/ Completes(p)]_vars

(* C2 happens: p was started, ended, was started again, and a further      *)
(* start_plugin(p) found it running and returned false                     *)
C2_Witness ==
    /\ last.invoked = "start_plugin" /\ last.was_running /\ last.result = "false"
    /\ \E i, j \in RunIds :
           /\ i < j
           /\ runs[i].plugin = last.plugin /\ runs[j].plugin = last.plugin
           /\ running_tasks[last.plugin] = j

(* execute() of run i has started, has not terminated and has no           *)
(* cancellation pending                                                    *)
Executing(i) == runs[i].pc = "exec" /\ ~runs[i].cancel

(* C3: at any time at most one execute() of a given plugin has started and *)
(* not yet terminated.  (An execute() that a pending cancellation is about *)
(* to end is not counted here.)                                            *)
C3_OneLiveExecute ==
    \A i, j \in RunIds :
        (i # j /\ runs[i].plugin = runs[j].plugin) => ~(Executing(i) /\ Executing(j))

(* the entries of plugin q in both running maps are the same after the step *)
EntriesUnchanged(q) ==
    /\ (q \in DOMAIN running_tasks') = (q \in DOMAIN running_tasks)
    /\ (q \in DOMAIN running_plugin_instances') = (q \in DOMAIN running_plugin_instances)
    /\ q \in DOMAIN running_tasks => running_tasks'[q] = running_tasks[q]
    /\ q \in DOMAIN running_plugin_instances
         => running_plugin_instances'[q] = running_plugin_instances[q]

(* C4: when execute() of a running plugin raises an exception other than a *)
(* cancellation, the wrapper catches it (the task goes on in the wrapper), *)
(* reports an error for the plugin and publishes its main switch OFF; when *)
(* the task of that run ends, its finally block has run and the plugin id  *)
(* is in neither running map; in both steps the entries of every other     *)
(* plugin are unchanged.                                                   *)
C4_ErrorContained ==
    [][\A i \in RunIds :
          LET p == runs[i].plugin
          IN /\ (runs[i].pc = "exec" /\ runs'[i].raised)
                  => /\ runs'[i].pc = "off"
                     /\ "error" \in runs'[i].reported
                     /\ switch_state'[p] = OFF
                     /\ \A q \in PluginIds \ {p} : EntriesUnchanged(q)
             /\ (runs[i].raised /\ runs[i].pc # "done" /\ runs'[i].pc = "done")
                  => /\ runs'[i].finalized
                     /\ p \notin DOMAIN running_tasks'
                     /\ p \notin DOMAIN running_plugin_instances'
                     /\ \A q \in PluginIds \ {p} : EntriesUnchanged(q)]_vars

(* C4 happens: execute() of a plugin raised while another plugin was       *)
(* running, the task has ended, the plugin is gone from both maps and its  *)
(* switch is OFF, the other plugin is still in both maps                   *)
C4_Witness ==
    \E i \in RunIds :
        /\ runs[i].raised /\ runs[i].pc = "done" /\ runs[i].finalized
        /\ runs[i].plugin \notin DOMAIN running_tasks
        /\ runs[i].plugin \notin DOMAIN running_plugin_instances
        /\ switch_state[runs[i].plugin] = OFF
        /\ \E q \in PluginIds \ {runs[i].plugin} :
               q \in DOMAIN running_tasks /\ q \in DOMAIN running_plugin_instances

(* C5: stop_plugin on a running plugin whose execute() ignores             *)
(* cancellation for longer than the cooperative-shutdown timeout returns   *)
(* within a bounded time, whether or not the task has unwound: it never    *)
(* waits for the task for longer than the timeout.                         *)
C5_StopBounded ==
    \A c \in Callers : frame[c].pc = "stop_wait" => frame[c].waited <= StopTimeout

(* C6: process_message never raises to its caller *)
C6_NeverRaises == last.outcome # "raised"

----------------------------------------------------------------------------
(* Properties of the dispatcher                                            *)

(* C7: process_message with a topic whose identifier matches no registered *)
(* plugin id produces exactly one warning and has no other effect: nothing *)
(* is started or stopped, the persisted config, both running maps and      *)
(* every instance are unchanged, and the call returns.                     *)
C7_UnknownTargetSafe ==
    [][(handled' # handled /\ Opened.plugin \notin PluginIds)
          => /\ Opened.reports = <<Report("warning", mealiemate_)>>
             /\ ~Opened.active /\ Opened.outcome = "returned"
             /\ Opened.invoked = "none" /\ Opened.stored = <<>>
             /\ UNCHANGED <<running_tasks, running_plugin_instances, plugin_configs,
                            runs, frame, shutdown_todo, switch_state>>]_vars

(* C7 happens: a message for an unregistered id was handled while a plugin *)
(* was running                                                             *)
C7_Witness ==
    /\ last.plugin = None /\ last.kind = "number" /\ last.outcome = "returned"
    /\ last.reports = <<Report("warning", mealiemate_)>>
    /\ is_plugin_running(neapolitan_pizza)

(* C8: a switch message whose identifier is a registered plugin p, with    *)
(* payload ON, invokes start_plugin(p), and with payload OFF stop_plugin(p)*)
(* ; a start_plugin(p) invoked for a stopped p constructs an instance,     *)
(* records it and its task under p, so that is_plugin_running(p) becomes   *)
(* true, and returns true.                                                 *)
C8_MainSwitchRouting ==
    [][/\ (/\ handled' # handled
           /\ Opened.plugin \in PluginIds /\ Opened.kind = "switch"
           /\ Opened.entity = <<>>)
            => /\ Opened.payload = ON => Opened.invoked = "start_plugin"
               /\ Opened.payload = OFF => Opened.invoked = "stop_plugin"
       /\ \A p \in PluginIds :
            StartSucceeds(p)
               => /\ cur'.invoked = "start_plugin" /\ cur'.plugin = p
                  /\ ~cur'.was_running /\ cur'.run = Len(runs')
                  /\ runs'[Len(runs')].attrs = apply_config_to_plugin(Inject(p), p)
                  /\ p \in DOMAIN running_tasks'
                  /\ p \in DOMAIN running_plugin_instances'
                  /\ running_tasks'[p] = Len(runs')
                  /\ running_plugin_instances'[p] = Len(runs')
       /\ (/\ cur.active /\ ~cur'.active
           /\ cur.invoked = "start_plugin" /\ ~cur.was_running)
            => /\ last'.result = "true" /\ last'.outcome = "returned"
               /\ last'.run \in 1..Len(runs')
               /\ runs'[last'.run].plugin = last'.plugin]_vars

(* C8 happens: the ON message of a stopped plugin was handled,             *)
(* start_plugin returned true and the plugin is running with the instance  *)
(* the call constructed                                                    *)
C8_Witness ==
    /\ last.invoked = "start_plugin" /\ ~last.was_running /\ last.result = "true"
    /\ last.payload = ON /\ last.plugin = shopping_list_generator
    /\ is_plugin_running(last.plugin)
    /\ last.plugin \in DOMAIN running_plugin_instances
    /\ running_plugin_instances[last.plugin] = last.run
    /\ runs[last.run].pc = "exec"

(* the entity is a declared number of the plugin, typed float *)
DeclaredFloat(p, e) == [id |-> e, type |-> "float"] \in Numbers(p)

(* the entity is a declared number of the plugin *)
DeclaredNumber(p, e) == \E nb \in Numbers(p) : nb.id = e

(* C9: a message on a number topic for a declared number <plugin>_<entity> *)
(* whose payload parses as the declared type results in                    *)
(* store_plugin_config(plugin, "_<entity>", parsed value); if the plugin   *)
(* is running, the attribute _<entity> of the instance its task executes   *)
(* equals the parsed value when process_message returns.                   *)
C9_NumberUpdateStored ==
    [][\A p \in PluginIds :
          (/\ handled' # handled
           /\ Opened.plugin = p /\ Opened.kind = "number"
           /\ DeclaredNumber(p, Opened.entity)
           /\ IF DeclaredFloat(p, Opened.entity) THEN FloatParses(Opened.payload)
              ELSE IntParses(Opened.payload))
            => LET a == AttrName(Opened.entity)
                   v == IF DeclaredFloat(p, Opened.entity) THEN FloatOf(Opened.payload)
                        ELSE IntOf(Opened.payload)
               IN /\ ~Opened.active /\ Opened.outcome = "returned"
                  /\ Opened.stored = <<[plugin |-> p, attr |-> a, value |-> v]>>
                  /\ p \in DOMAIN plugin_configs'
                  /\ a \in DOMAIN plugin_configs'[p]
                  /\ plugin_configs'[p][a] = v
                  /\ is_plugin_running(p) => runs'[running_tasks[p]].attrs[a] = v]_vars

(* C10: a number message for a known plugin whose payload does not parse   *)
(* as the declared type (int unless the declared number is typed float)    *)
(* causes one error report for that plugin, leaves the persisted config    *)
(* and every instance unchanged, and the call returns.                     *)
C10_InvalidNumberRejected ==
    [][\A p \in PluginIds :
          (/\ handled' # handled
           /\ Opened.plugin = p /\ Opened.kind = "number"
           /\ ~(IF DeclaredFloat(p, Opened.entity) THEN FloatParses(Opened.payload)
                ELSE IntParses(Opened.payload)))
            => /\ Opened.reports = <<Report("error", p)>>
               /\ ~Opened.active /\ Opened.outcome = "returned"
               /\ Opened.stored = <<>>
               /\ plugin_configs' = plugin_configs
               /\ runs' = runs]_vars

(* C10 happens: with the plugin running and a value stored for it, a       *)
(* payload that is no int was sent to its int number and was rejected      *)
C10_Witness ==
    /\ last.kind = "number" /\ last.plugin = neapolitan_pizza
    /\ last.entity = total_time /\ last.payload = <<"3", ".", "5">>
    /\ last.reports = <<Report("error", neapolitan_pizza)>>
    /\ last.was_running /\ is_plugin_running(neapolitan_pizza)
    /\ neapolitan_pizza \in DOMAIN plugin_configs
    /\ plugin_configs[neapolitan_pizza][AttrName(total_time)] = IntV(30)

----------------------------------------------------------------------------
(* Properties of the persisted configuration                               *)

(* the (plugin, attribute, value) that the call a step begins hands to     *)
(* store_plugin_config                                                     *)
Stores(p, a, v) ==
    /\ handled' # handled
    /\ Opened.stored = <<[plugin |-> p, attr |-> a, value |-> v]>>

(* the attributes an instance of plugin p has *)
Attributes(p) == DOMAIN Inject(p)

(* the values the control messages of the model store *)
StoredValues == {Opened.stored[i].value : i \in 1..Len(Opened.stored)}

(* C11: after store_plugin_config(p, a, v) the persisted config holds v    *)
(* under (p, a); if p is running, the attribute a of the instance its task *)
(* executes equals v; the persisted config of other plugins and of other   *)
(* attributes is unchanged.                                                *)
C11_DualWrite ==
    [][\A p \in PluginIds : \A a \in Attributes(p) : \A v \in StoredValues :
          Stores(p, a, v)
            => /\ p \in DOMAIN plugin_configs'
               /\ a \in DOMAIN plugin_configs'[p]
               /\ plugin_configs'[p][a] = v
               /\ \A q \in DOMAIN plugin_configs' : \A b \in DOMAIN plugin_configs'[q] :
                      (q # p \/ b # a)
                        => /\ q \in DOMAIN plugin_configs
                           /\ b \in DOMAIN plugin_configs[q]
                           /\ plugin_configs'[q][b] = plugin_configs[q][b]
               /\ is_plugin_running(p) => runs'[running_tasks[p]].attrs[a] = v]_vars

(* an instance of plugin p as its constructor leaves it, and one whose     *)
(* attributes all hold another value                                       *)
Instances(p) == {Inject(p), [a \in Attributes(p) |-> IntV(0)]}

(* values of every type the control messages store *)
ConfigValues == {IntV(30), FloatV(25, 1), BoolV(TRUE), StrV(<<"h", "i">>)}

(* the attributes persisted for plugin p *)
Persisted(p) == IF p \in DOMAIN plugin_configs THEN DOMAIN plugin_configs[p] ELSE {}

(* C12: storing the same (plugin, attribute, value) twice yields the same  *)
(* persisted config as storing it once, both for the map operation and for *)
(* a store_plugin_config call that repeats what is persisted; applying the *)
(* persisted config to two separately constructed instances of a plugin    *)
(* gives both the persisted value in every persisted attribute they have.  *)
C12_ReplayIdempotent ==
    [][\A p \in PluginIds :
          /\ \A a \in Attributes(p) : \A v \in ConfigValues :
                StoreInto(StoreInto(plugin_configs, p, a, v), p, a, v)
                    = StoreInto(plugin_configs, p, a, v)
          /\ \A a \in Attributes(p) : \A v \in StoredValues :
                (Stores(p, a, v) /\ a \in Persisted(p) /\ plugin_configs[p][a] = v)
                    => plugin_configs' = plugin_configs
          /\ \A one \in Instances(p) : \A other \in Instances(p) :
                \A a \in Persisted(p) \cap Attributes(p) :
                    /\ apply_config_to_plugin(one, p)[a] = plugin_configs[p][a]
                    /\ apply_config_to_plugin(one, p)[a]
                           = apply_config_to_plugin(other, p)[a]]_vars

(* C12 happens: a value other than the default is persisted and two        *)
(* instances of the plugin were constructed one after the other, both with *)
(* the persisted value                                                     *)
C12_Witness ==
    /\ neapolitan_pizza \in DOMAIN plugin_configs
    /\ AttrName(total_time) \in DOMAIN plugin_configs[neapolitan_pizza]
    /\ plugin_configs[neapolitan_pizza][AttrName(total_time)] = IntV(30)
    /\ \E i, j \in RunIds :
           /\ i < j
           /\ runs[i].plugin = neapolitan_pizza /\ runs[j].plugin = neapolitan_pizza
           /\ runs[i].attrs[AttrName(total_time)] = IntV(30)
           /\ runs[j].attrs = runs[i].attrs

----------------------------------------------------------------------------
(* Properties of routing and of the order of processing                    *)

(* the (plugin_id, entity_id, kind) a topic of the model stands for *)
Expected(topic) ==
    CASE topic = Topic(switch, neapolitan_pizza, set)
             -> <<neapolitan_pizza, <<>>, "switch">>
      [] topic = Topic(switch, shopping_list_generator, set)
             -> <<shopping_list_generator, <<>>, "switch">>
      [] topic = Topic(number, neapolitan_pizza \o <<"_">> \o total_time, set)
             -> <<neapolitan_pizza, total_time, "number">>
      [] topic = Topic(number, mealiemate_ \o neapolitan_pizza \o <<"_">> \o salt_percent,
                       set)
             -> <<neapolitan_pizza, salt_percent, "number">>
      [] topic = Topic(switch, shopping_list_generator \o <<"_">> \o include_today, set)
             -> <<shopping_list_generator, include_today, "switch">>
      [] topic = Topic(text, neapolitan_pizza \o <<"_">> \o feedback, set)
             -> <<neapolitan_pizza, feedback, "text">>
      [] topic = Topic(button,
                       shopping_list_generator \o <<"_">> \o continue_to_next_batch,
                       command)
             -> <<shopping_list_generator, continue_to_next_batch, "button">>
      [] topic = Topic(button, neapolitan_pizza, command)
             -> <<neapolitan_pizza, <<>>, "button">>
      [] topic = Topic(number, thermostat, set)
             -> <<None, <<>>, "number">>

(* C13: for the fixed registry, process_message resolves a topic to the    *)
(* same (plugin_id, entity_id, kind) in every call, whatever was processed *)
(* before, whatever runs and whatever is persisted: every call resolves    *)
(* its topic to the tuple the topic stands for (a button topic whose       *)
(* payload is not the press sentinel is then dropped as unknown command).  *)
C13_RoutingDeterministic ==
    [][handled' # handled
          => /\ Opened.plugin = Expected(Opened.topic)[1]
             /\ Opened.entity = Expected(Opened.topic)[2]
             /\ \/ Opened.kind = Expected(Opened.topic)[3]
                \/ /\ Expected(Opened.topic)[3] = "button"
                   /\ Opened.payload # PRESS
                   /\ Opened.kind = "unknown"]_vars

(* C13 happens: a number topic was resolved while its plugin was running   *)
(* and after another message had changed the persisted config              *)
C13_Witness ==
    /\ last.topic = Topic(number, neapolitan_pizza \o <<"_">> \o total_time, set)
    /\ last.plugin = neapolitan_pizza /\ last.entity = total_time
    /\ last.kind = "number" /\ last.was_running
    /\ neapolitan_pizza \in DOMAIN plugin_configs
    /\ AttrName(salt_percent) \in DOMAIN plugin_configs[neapolitan_pizza]

----------------------------------------------------------------------------
(* Properties of the application                                           *)

(* C14: the messages the listener enqueues are dispatched to               *)
(* process_message in the order they were enqueued: the queue grows only   *)
(* at its end, by the listener; it shrinks only at its head, by the        *)
(* processor, which then begins process_message for the message taken; so  *)
(* the call for the n-th message enqueued begins right after the call for  *)
(* message n-1 and before the call for message n+1.                        *)
C14_ArrivalOrder ==
    [][/\ app'.queue # app.queue =>
             \/ /\ app'.queue = Append(app.queue, app.arrived + 1)
                /\ app'.arrived = app.arrived + 1
                /\ app'.begun = app.begun
             \/ /\ app.queue # <<>>
                /\ app'.queue = Tail(app.queue)
                /\ app'.begun = Head(app.queue)
                /\ app'.calls = app.calls \cup {"processor"}
       /\ app'.begun # app.begun => app'.begun = app.begun + 1]_vars

(* the second message is being processed while the third waits *)
C14_Witness ==
    /\ app.begun = 2
    /\ "processor" \in app.calls
    /\ app.queue = <<3>>

(* C15: at most one process_message call is in progress at any time: the   *)
(* retained messages are handled by start() itself before the processor    *)
(* task exists, the queued ones by the processor alone, also while         *)
(* shutdown() runs.                                                        *)
C15_OneCallAtATime == Cardinality(app.calls) <= 1

(* retained messages were handled during the drain, and the processor is   *)
(* inside process_message while shutdown() publishes the offline status    *)
C15_Witness ==
    /\ app.drained > 0
    /\ app.calls = {"processor"}
    /\ frame["shutdown"].pc = "offline"

----------------------------------------------------------------------------
(* Properties of failed operations                                         *)

(* C16: stop_plugin returns False for a plugin that is not running;        *)
(* start_plugin returns False for a plugin that is running, for an id the  *)
(* registry does not have, and when the instance cannot be built.  A call  *)
(* that returns False leaves both running maps and the persisted config as *)
(* they were, creates no task and publishes no main-switch state; so does  *)
(* a stop_plugin that shutdown() calls for a plugin no longer running.     *)
C16_FailedStartStopNoOp ==
    [][LET call == last'
           ends == last' # last
           errors == Report("error", call.plugin) \in
                        {call.reports[i] : i \in 1..Len(call.reports)}
           refused == \/ call.was_running
                      \/ call.plugin \notin PluginIds
                      \/ errors
           failed == \/ ends /\ call.result = "false"
                     \/ /\ frame["shutdown"].pc = "loop"
                        /\ frame'["shutdown"].pc = "loop"
                        /\ shutdown_todo' # shutdown_todo
       IN /\ (ends /\ call.invoked = "start_plugin" /\ refused) => call.result = "false"
          /\ (ends /\ call.invoked = "stop_plugin" /\ ~call.was_running)
                => call.result = "false"
          /\ failed => /\ running_tasks' = running_tasks
                       /\ running_plugin_instances' = running_plugin_instances
                       /\ plugin_configs' = plugin_configs
                       /\ runs' = runs
                       /\ switch_state' = switch_state]_vars

(* a start of a plugin that was not running has failed with an error       *)
(* report while the plugin's last run has left its main switch OFF         *)
C16_Witness ==
    /\ last.invoked = "start_plugin"
    /\ last.plugin = neapolitan_pizza
    /\ last.result = "false"
    /\ ~last.was_running
    /\ Report("error", neapolitan_pizza) \in {last.reports[i] : i \in 1..Len(last.reports)}
    /\ ~cur.active
    /\ runs # <<>>
    /\ running_tasks = EmptyMap

(* C18: a press of a button of a plugin that has no registered instance    *)
(* changes nothing: no plugin is started, no config is stored, no instance *)
(* has a flag or its event set; a warning is logged and process_message    *)
(* returns.                                                                *)
C18_StoppedButtonNoOp ==
    [][(/\ handled' # handled
        /\ Opened.kind = "button"
        /\ Opened.plugin \notin DOMAIN running_plugin_instances)
       => /\ running_tasks' = running_tasks
          /\ running_plugin_instances' = running_plugin_instances
          /\ plugin_configs' = plugin_configs
          /\ runs' = runs
          /\ switch_state' = switch_state
          /\ frame' = frame
          /\ ~cur'.active
          /\ last'.outcome = "returned"
          /\ Opened.invoked = "none" /\ Opened.stored = <<>>
          /\ Report("logged warning", Opened.plugin) \in
                 {Opened.reports[i] : i \in 1..Len(Opened.reports)}]_vars

(* the continue button of the shopping list generator was pressed while    *)
(* only the pizza plugin was running                                       *)
C18_Witness ==
    /\ last.kind = "button"
    /\ last.plugin = shopping_list_generator
    /\ last.entity = continue_to_next_batch
    /\ shopping_list_generator \notin DOMAIN running_plugin_instances
    /\ neapolitan_pizza \in DOMAIN running_plugin_instances
    /\ last.outcome = "returned"

----------------------------------------------------------------------------
(* Properties of the shutdown                                              *)

(* C17: shutdown() stops every plugin that was running when it began, then *)
(* publishes the offline status, then stops the tasks of SystemService,    *)
(* then cancels and awaits the background tasks, and returns: it is never  *)
(* left by an exception; the offline status is published only when no      *)
(* plugin of the snapshot is left to stop; the background tasks are        *)
(* cancelled only after the heartbeat and the midnight task are done; it    *)
(* has returned only when every background task is done.                   *)
C17_ShutdownSequence ==
    /\ frame["shutdown"].pc # "raised"
    /\ frame["shutdown"].pc \in {"offline", "system", "gather", "done"} =>
          shutdown_todo = <<>>
    /\ frame["shutdown"].pc \in {"not_started", "loop", "stop_off", "stop_wait",
                                  "stop_reset", "offline"} =>
          \A t \in TaskNames : app.state[t] \notin {"cancelling", "done"}
    /\ frame["shutdown"].pc \in {"gather", "done"} =>
          \A t \in {"heartbeat", "midnight"} : app.state[t] = "done"
    /\ frame["shutdown"].pc = "done" =>
          \A t \in TaskNames : app.state[t] = "done"

----------------------------------------------------------------------------
(* Properties of the waits for a decision                                  *)

(* C19: a plugin that waits for a button never waits longer than the       *)
(* decision timeout of one hour; when the timeout expires without a press  *)
(* the wait ends with the default decision: the ingredient merger takes    *)
(* the suggestion as rejected and stays in its loop, so the next           *)
(* suggestion is presented, the shopping list generator leaves its review  *)
(* loop; and every plugin that waits runs to its end, pressed or not.      *)
C19_BoundedDecisionWait ==
    /\ [](\A i \in RunIds : runs[i].waiting => runs[i].elapsed <= DecisionTimeout)
    /\ [][\A i \in RunIds :
             (/\ runs[i].waiting
              /\ runs[i].elapsed >= DecisionTimeout
              /\ runs'[i].elapsed # runs[i].elapsed \/ ~runs'[i].waiting)
             => /\ ~runs'[i].waiting
                /\ runs'[i].decisions = Append(runs[i].decisions, "timeout")
                /\ runs'[i].item = runs[i].item
                /\ runs[i].plugin = ingredient_merger => ~runs'[i].ended
                /\ runs[i].plugin = shopping_list_generator => runs'[i].ended]_vars
    /\ \A i \in AllRunIds :
          (i \in RunIds /\ runs[i].waiting) ~> (i \in RunIds /\ runs[i].pc = "done")

(* no button was pressed: the merger has taken its first suggestion as     *)
(* rejected and presented the second one, the shopping list generator has  *)
(* left its review loop after the first batch and has run to its end       *)
C19_Witness ==
    /\ handled = 2
    /\ \E i \in RunIds :
          /\ runs[i].plugin = ingredient_merger
          /\ runs[i].decisions = <<"timeout">>
          /\ runs[i].item = 2 /\ runs[i].waiting
    /\ \E i \in RunIds :
          /\ runs[i].plugin = shopping_list_generator
          /\ runs[i].decisions = <<"timeout">>
          /\ runs[i].item = 1 /\ runs[i].pc = "done"

----------------------------------------------------------------------------
(* Properties of the background tasks                                      *)

(* C21: when the connection of the listener fails while the application    *)
(* serves, the listener task connects again (so that the messages          *)
(* published after the failure can be put on the queue), unless the        *)
(* application is shut down in between.                                    *)
C21_ListenerRecovers ==
    (/\ app.main = "serving" /\ app.broker
     /\ app.state["listener"] = "done")
    ~> (\/ app.main # "serving"
        \/ app.state["listener"] \in {"connecting", "listening"})

(* C22: once started, the heartbeat task attempts to publish the liveness  *)
(* signal, sleeps for the interval of one hour and attempts again, as long *)
(* as it is not cancelled; an attempt that raises an error other than the  *)
(* cancellation is followed by a back-off of one minute and another        *)
(* attempt; the task ends through a cancellation only.                     *)
C22_HeartbeatKeepsBeating ==
    /\ [](app.beat.pc = "sleep" => app.beat.elapsed <= HeartbeatInterval)
    /\ [](app.beat.pc = "backoff" =>
            app.beat.result = "raised" /\ app.beat.elapsed <= HeartbeatBackoff)
    /\ [][/\ app.state["heartbeat"] # "done" /\ app'.state["heartbeat"] = "done"
             => app.state["heartbeat"] = "cancelling"
          /\ app.beat.pc = "attempt" /\ app'.beat.pc # "attempt"
             => app'.beat.pc = (IF app'.beat.result = "raised" THEN "backoff" ELSE "sleep")
          /\ app.beat.pc = "sleep" /\ app'.beat.pc # "sleep"
             => app.beat.elapsed = HeartbeatInterval /\ app'.beat.pc = "attempt"
          /\ app.beat.pc = "backoff" /\ app'.beat.pc # "backoff"
             => app.beat.elapsed = HeartbeatBackoff /\ app'.beat.pc = "attempt"]_vars
    /\ (app.state["heartbeat"] = "running" /\ app.beat.pc # "attempt")
          ~> (app.state["heartbeat"] # "running" \/ app.beat.pc = "attempt")
    /\ (app.state["heartbeat"] = "running" /\ app.beat.pc = "attempt")
          ~> (app.state["heartbeat"] # "running" \/ app.beat.pc # "attempt")

(* an attempt has raised, the task has backed off for a minute and has     *)
(* then sent the signal; it sleeps and is not cancelled                    *)
C22_Witness ==
    /\ app.state["heartbeat"] = "running"
    /\ app.beat.after = "backoff"
    /\ app.beat.result = "sent"
    /\ app.beat.pc = "sleep" /\ app.beat.elapsed = HeartbeatInterval

----------------------------------------------------------------------------
(* Properties of the order of a start and of a stop                        *)

(* C23: in every successful start_plugin the instance is registered and    *)
(* its task created only after the stored configuration was laid over the  *)
(* constructor's attributes and, for a plugin with sensors to reset, after *)
(* the reset has returned; so when execute() begins, no attribute that was *)
(* stored at the time of the start has its constructor default in place of *)
(* a stored value.                                                         *)
C23_StartOrdering ==
    /\ [](frame["processor"].pc = "start_reset" =>
            /\ ResetSensors(frame["processor"].plugin) # <<>>
            /\ frame["processor"].attrs =
                  apply_config_to_plugin(Inject(frame["processor"].plugin),
                                         frame["processor"].plugin))
    /\ [][Len(runs') = Len(runs) + 1 =>
            LET new == runs'[Len(runs')]
                p == new.plugin
            IN /\ new.pc = "new"
               /\ new.attrs = apply_config_to_plugin(Inject(p), p)
               /\ ResetSensors(p) # <<>> => frame["processor"].pc = "start_reset"]_vars
    /\ [][\A i \in RunIds :
             runs[i].pc = "new" /\ runs'[i].pc = "exec" =>
                \A a \in runs[i].applied :
                   \/ runs[i].attrs[a] = plugin_configs[runs[i].plugin][a]
                   \/ runs[i].attrs[a] # Inject(runs[i].plugin)[a]]_vars

(* the include_today switch was stored before the start: execute() of the  *)
(* shopping list generator has begun with the stored value, after the      *)
(* reset of the three sensors                                              *)
C23_Witness ==
    \E i \in RunIds :
       /\ runs[i].plugin = shopping_list_generator
       /\ runs[i].pc = "exec"
       /\ runs[i].applied = {AttrName(include_today)}
       /\ runs[i].attrs[AttrName(include_today)] = BoolV(TRUE)
       /\ Inject(shopping_list_generator)[AttrName(include_today)] = BoolV(FALSE)

(* C24: the persisted config changes only in a step of a handler that      *)
(* calls store_plugin_config, and then by that one entry; no step of a     *)
(* start, a stop or a supervised task (completion, failure, cancellation)  *)
(* adds, removes or changes an entry; so every instance a start constructs *)
(* holds, in each persisted attribute it has, the value persisted then.    *)
C24_ConfigContinuity ==
    /\ [][plugin_configs' # plugin_configs =>
            /\ handled' # handled
            /\ Len(Opened.stored) = 1
            /\ plugin_configs' = StoreInto(plugin_configs, Opened.stored[1].plugin,
                                           Opened.stored[1].attr, Opened.stored[1].value)]_vars
    /\ [][\A p \in DOMAIN plugin_configs :
             /\ p \in DOMAIN plugin_configs'
             /\ \A a \in DOMAIN plugin_configs[p] :
                   /\ a \in DOMAIN plugin_configs'[p]
                   /\ plugin_configs'[p][a] # plugin_configs[p][a]
                         => Stores(p, a, plugin_configs'[p][a])]_vars
    /\ [][\A p \in PluginIds :
             StartSucceeds(p) =>
                \A a \in Persisted(p) \cap Attributes(p) :
                   runs'[Len(runs')].attrs[a] = plugin_configs[p][a]]_vars

(* a total_time of 30 was stored, a run of the plugin started after that   *)
(* has failed, and the next start has constructed an instance with the     *)
(* stored value                                                            *)
C24_Witness ==
    \E i \in RunIds : \E j \in RunIds :
       /\ i < j
       /\ runs[i].plugin = neapolitan_pizza /\ runs[j].plugin = neapolitan_pizza
       /\ runs[i].pc = "done" /\ runs[i].raised
       /\ AttrName(total_time) \in runs[i].applied
       /\ AttrName(total_time) \in runs[j].applied
       /\ runs[j].attrs[AttrName(total_time)] = IntV(30)
       /\ plugin_configs[neapolitan_pizza][AttrName(total_time)] = IntV(30)

(* C25: stop_plugin publishes the main switch state OFF in its first step, *)
(* while the task of the plugin is still registered, not cancelled by this *)
(* call and not at its end; the call takes the task out of the map and     *)
(* cancels it only in a later step, and waits for the task only after      *)
(* that.                                                                   *)
C25_StopOrdering ==
    /\ [][\A c \in Callers :
             frame[c].pc # "stop_off" /\ frame'[c].pc = "stop_off" =>
                LET p == frame'[c].plugin
                IN /\ switch_state'[p] = OFF
                   /\ p \in DOMAIN running_tasks /\ running_tasks' = running_tasks
                   /\ runs' = runs
                   /\ runs[running_tasks[p]].pc # "done"]_vars
    /\ [][\A c \in Callers :
             frame[c].pc # "stop_wait" /\ frame'[c].pc = "stop_wait" =>
                /\ frame[c].pc = "stop_off"
                /\ frame'[c].plugin = frame[c].plugin
                /\ frame'[c].tid = running_tasks[frame[c].plugin]
                /\ frame[c].plugin \notin DOMAIN running_tasks']_vars
    /\ [][\A i \in RunIds :
             ~runs[i].cancel /\ runs'[i].cancel =>
                \E c \in Callers :
                   /\ frame[c].pc \in {"stop_off", "stop_wait"}
                   /\ frame'[c].pc = "stop_wait" /\ frame'[c].tid = i]_vars

(* a stop has published OFF and then cancelled the task, which unwinds     *)
(* through its except arm while the stop waits for it                      *)
C25_Witness ==
    /\ cur.active /\ cur.invoked = "stop_plugin"
    /\ frame["processor"].pc = "stop_wait"
    /\ switch_state[frame["processor"].plugin] = OFF
    /\ runs[frame["processor"].tid].plugin = frame["processor"].plugin
    /\ runs[frame["processor"].tid].pc = "off"
    /\ runs[frame["processor"].tid].branch = "cancelled"

----------------------------------------------------------------------------
(* Properties of the lifecycle                                             *)

(* The lifecycle state of plugin p as the manager's state shows it:        *)
(* Running while a task is registered for it (lines 87-89), Starting while *)
(* start_plugin is between the construction and the registration (lines    *)
(* 74-80), Cancelling while a stop_plugin has taken the task out of the    *)
(* map and has not returned (lines 119-144), Stopped otherwise.            *)
Phase(p) ==
    IF p \in DOMAIN running_tasks THEN "Running"
    ELSE IF frame["processor"].pc = "start_reset" /\ frame["processor"].plugin = p
    THEN "Starting"
    ELSE IF \E c \in Callers : frame[c].pc \in {"stop_wait", "stop_reset"}
                                 /\ frame[c].plugin = p
    THEN "Cancelling"
    ELSE "Stopped"

(* the moves of the lifecycle; a plugin with no sensor to reset is         *)
(* registered in the step that constructs it                               *)
Moves ==
    {<<"Stopped", "Starting">>, <<"Stopped", "Running">>, <<"Starting", "Running">>,
     <<"Starting", "Stopped">>, <<"Running", "Stopped">>, <<"Running", "Cancelling">>,
     <<"Cancelling", "Stopped">>}

(* C26: every plugin moves along Stopped, Starting, Running and back to    *)
(* Stopped, directly (completion, error) or through Cancelling; when the   *)
(* supervised task of a running plugin leaves execute(), it comes to its   *)
(* end, and that step leaves the plugin with no registered task and no     *)
(* registered instance and the main switch OFF, so a start can succeed.    *)
C26_Lifecycle ==
    /\ [][\A p \in PluginIds :
             Phase(p)' # Phase(p) => <<Phase(p), Phase(p)'>> \in Moves]_vars
    /\ [][\A i \in RunIds :
             runs[i].pc = "off" /\ runs'[i].pc = "done" =>
                /\ Phase(runs[i].plugin)' \in {"Stopped", "Cancelling"}
                /\ runs[i].plugin \notin DOMAIN running_plugin_instances'
                /\ switch_state'[runs[i].plugin] = OFF]_vars
    /\ \A i \in AllRunIds :
          (i \in RunIds /\ runs[i].pc = "off") ~> (i \in RunIds /\ runs[i].pc = "done")

----------------------------------------------------------------------------
(* Properties of the bookkeeping                                           *)

(* C27: while a start_plugin is between its is-running check and its map   *)
(* update, and while a stop_plugin is between its is-running check and its *)
(* removal of the task, no step of another task changes the entry of that  *)
(* plugin in the map of running tasks.                                     *)
C27_AtomicBookkeeping ==
    [][/\ \A c \in Callers :
             (frame[c].pc = "stop_off" /\ frame'[c] = frame[c]) =>
                /\ frame[c].plugin \in DOMAIN running_tasks'
                /\ running_tasks'[frame[c].plugin] = running_tasks[frame[c].plugin]
       /\ (frame["processor"].pc = "start_reset"
              /\ frame'["processor"] = frame["processor"]) =>
             frame["processor"].plugin \notin DOMAIN running_tasks']_vars

----------------------------------------------------------------------------
(* Properties of the startup                                               *)

----------------------------------------------------------------------------
(* Properties of the decision buttons                                      *)

(* C29: a press of the accept or the reject button of the ingredient       *)
(* merger that is handled while the merger is running sets the decision    *)
(* flag and the event of the instance the running task executes, both in   *)
(* the step of the handler, and changes no other instance; the wait of an  *)
(* execute() whose event is set ends, and the decision it returns is the   *)
(* flag as the last press has left it.                                     *)
C29_PressReachesLiveInstance ==
    /\ [][(/\ handled' # handled
            /\ Opened.kind = "button" /\ Opened.plugin = ingredient_merger
            /\ Opened.entity \in {accept_button, reject_button}
            /\ is_plugin_running(ingredient_merger))
           => LET i == running_tasks[ingredient_merger]
              IN /\ runs'[i].event
                 /\ runs'[i].accepted = (Opened.entity = accept_button)
                 /\ \A j \in RunIds \ {i} : runs'[j] = runs[j]]_vars
    /\ [][\A i \in RunIds :
             (/\ runs[i].plugin = ingredient_merger
              /\ runs[i].waiting /\ ~runs'[i].waiting
              /\ Len(runs'[i].decisions) > Len(runs[i].decisions)
              /\ runs[i].event /\ runs[i].elapsed < DecisionTimeout)
             => runs'[i].decisions =
                  Append(runs[i].decisions,
                         IF runs[i].accepted THEN "accepted" ELSE "rejected")]_vars
    /\ \A i \in AllRunIds :
          (i \in RunIds /\ runs[i].waiting /\ runs[i].event)
             ~> (i \in RunIds /\ (~runs[i].waiting \/ runs[i].pc # "exec"))

----------------------------------------------------------------------------
(* Properties of the message processor                                     *)

(* C30: whatever plugins are running or waiting for a button, every        *)
(* control message the listener has put on the queue is eventually taken   *)
(* from it and dispatched.                                                 *)
C30_MessagesDispatched ==
    \A k \in 1..MaxMessages : (app.arrived >= k) ~> (handled >= k)

(* C31: when an exception leaves process_message, the message is dropped   *)
(* (it is not put back on the queue) and the processor is at the top of    *)
(* its loop, its task still running; each message that is on the queue or  *)
(* arrives after it is dispatched unless the processor is cancelled; and   *)
(* the processor task ends on a cancellation only.                         *)
C31_ErrorContained ==
    /\ [][(last'.outcome = "raised" /\ last' # last)
           => /\ frame'["processor"] = IdleFrame /\ ~cur'.active
              /\ app'.state["processor"] = app.state["processor"]
              /\ app'.state["processor"] # "done"
              /\ handled' = handled /\ app'.arrived = app.arrived]_vars
    /\ [][app'.state["processor"] = "done" /\ app.state["processor"] # "done"
           => app.state["processor"] = "cancelling"]_vars
    /\ \A k \in 1..MaxMessages :
          (last.outcome = "raised" /\ handled < k /\ app.arrived >= k)
             ~> (handled >= k \/ app.state["processor"] # "running")

(* a stop command of the processor has raised; the processor is at the top *)
(* of its loop, still running, and a message that arrived later waits      *)
C31_Witness ==
    /\ last.outcome = "raised" /\ last.kind = "switch" /\ last.payload = OFF
    /\ ~cur.active /\ frame["processor"] = IdleFrame
    /\ app.state["processor"] = "running"
    /\ handled < app.arrived

----------------------------------------------------------------------------
(* Properties of the dispatcher                                            *)

(* the message of a call fits no combination process_message handles: a    *)
(* main switch with a payload other than ON and OFF, an auxiliary switch,  *)
(* a number or a text the plugin does not declare, a button topic without  *)
(* the press sentinel or a topic of no recognised kind                     *)
Unmatched(call) ==
    /\ call.plugin # None
    /\ \/ call.kind = "switch" /\ call.entity = <<>> /\ call.payload \notin {ON, OFF}
       \/ /\ call.kind = "switch" /\ call.entity # <<>>
          /\ \A sw \in Switches(call.plugin) : sw.id # call.entity
       \/ call.kind = "number" /\ ~DeclaredNumber(call.plugin, call.entity)
       \/ call.kind = "text"
       \/ call.kind = "unknown"

(* C32: the handling of a message for a known plugin that fits no handled  *)
(* combination reports a warning and changes neither the running maps, nor *)
(* the persisted config, nor any instance.                                 *)
C32_UnmatchedWarned ==
    [][(handled' # handled /\ Unmatched(Opened))
         => /\ \E k \in 1..Len(Opened.reports) : Opened.reports[k].level = "warning"
            /\ running_tasks' = running_tasks
            /\ running_plugin_instances' = running_plugin_instances
            /\ plugin_configs' = plugin_configs
            /\ runs' = runs]_vars

(* C33: the plugin resolved for a raw identifier is the first id of the    *)
(* registry, in registry order, that the raw identifier starts with, and   *)
(* none when it starts with no id; of two registered ids that are both     *)
(* prefixes of it the one registered first is taken, whatever their        *)
(* lengths; the entity is what follows the matched id and one more         *)
(* character, and is empty when nothing or one character follows.  The     *)
(* dispatcher of the model resolves its messages in the same way.          *)
C33_FirstRegisteredPrefix ==
    /\ last.outcome = "resolved" =>
          LET reg == last.registry
              raw_id == last.topic
              p == last.plugin
              hits == {i \in 1..Len(reg) : StartsWith(raw_id, reg[i])}
          IN /\ hits = {} => p = None /\ last.entity = <<>>
             /\ hits # {} =>
                   /\ \E i \in hits : reg[i] = p /\ \A j \in hits : i <= j
                   /\ \A i, j \in hits : i < j => p # reg[j]
                   /\ Len(raw_id) <= Len(p) + 1 => last.entity = <<>>
                   /\ Len(raw_id) > Len(p) =>
                         /\ Len(last.entity) = Len(raw_id) - Len(p) - 1
                         /\ \A k \in 1..Len(last.entity) :
                               last.entity[k] = raw_id[Len(p) + 1 + k]
    /\ \A m \in DOMAIN Routed :
          /\ Routed[m].plugin = Resolved(Registry, RawId(m.topic)).plugin
          /\ Routed[m].entity = Resolved(Registry, RawId(m.topic)).entity

(* the shorter id was registered first and the longer one is a prefix of   *)
(* the raw identifier too: the shorter one is resolved                     *)
C33_Witness ==
    /\ last.outcome = "resolved"
    /\ last.registry = <<<<"a">>, <<"a", "b">>>>
    /\ last.topic = <<"a", "b", "_", "b">>
    /\ last.plugin = <<"a">>
    /\ last.entity = <<"_", "b">>

----------------------------------------------------------------------------
(* Properties of the midnight task                                         *)

(* C34: the midnight task calls reset_special_sensors when a poll reads a  *)
(* day other than the last recorded reset day, and only then; a midnight   *)
(* has passed since the call before; when the call is over the day read is *)
(* the recorded one; after an error of a poll the task polls again; and    *)
(* the task ends on a cancellation only.                                   *)
C34_MidnightReset ==
    /\ [][(app.midnight.pc = "poll" /\ app'.midnight.pc \in {"reset", "sleep"})
           => /\ app'.midnight.now = app.midnight.today
              /\ (app.midnight.today # app.midnight.last_reset_day)
                    <=> (app'.midnight.resets = app.midnight.resets + 1)
              /\ (app.midnight.today = app.midnight.last_reset_day)
                    <=> (app'.midnight.resets = app.midnight.resets)]_vars
    /\ [][app'.midnight.resets # app.midnight.resets
           => /\ app.midnight.pc = "poll"
              /\ app.midnight.rolled > app.midnight.reset_at]_vars
    /\ [][(app.midnight.pc = "reset" /\ app'.midnight.pc # "reset")
           => app'.midnight.last_reset_day = app.midnight.now]_vars
    /\ [][app'.state["midnight"] = "done" /\ app.state["midnight"] # "done"
           => app.state["midnight"] = "cancelling"]_vars
    /\ (app.midnight.pc = "backoff")
          ~> (app.midnight.pc = "poll" \/ app.state["midnight"] # "running")

(* two midnights have passed and have been observed: reset_special_sensors *)
(* was called twice and the second day is recorded                         *)
C34_Witness ==
    /\ app.midnight.rolled = 2 /\ app.midnight.resets = 2
    /\ app.midnight.pc = "sleep"
    /\ app.midnight.last_reset_day = app.midnight.today
    /\ app.state["midnight"] = "running"

----------------------------------------------------------------------------
(* Properties of the cleanup                                               *)

(* C35: the end of a supervised task removes from the running maps only    *)
(* the entries of its own run: a run that is registered for the same       *)
(* plugin and has not ended keeps its task entry and its instance entry    *)
(* when the task of an older run ends.                                     *)
C35_CleanupOwnEntries ==
    [][\A i \in RunIds : \A j \in RunIds \ {i} :
          (/\ runs[i].pc # "done" /\ runs'[i].pc = "done"
           /\ runs[j].pc \in {"new", "exec"})
          => LET p == runs[j].plugin
             IN /\ (p \in DOMAIN running_tasks /\ running_tasks[p] = j)
                     => (p \in DOMAIN running_tasks' /\ running_tasks'[p] = j)
                /\ (p \in DOMAIN running_plugin_instances
                       /\ running_plugin_instances[p] = j)
                     => (p \in DOMAIN running_plugin_instances'
                           /\ running_plugin_instances'[p] = j)]_vars

----------------------------------------------------------------------------
(* Properties of the shutdown                                              *)

(* C36: when shutdown() has returned both running maps are empty and no    *)
(* supervised task is left: every task that was created has ended.         *)
C36_NoPluginSurvives ==
    frame["shutdown"].pc = "done" =>
        /\ running_tasks = EmptyMap
        /\ running_plugin_instances = EmptyMap
        /\ \A i \in RunIds : runs[i].pc = "done"

----------------------------------------------------------------------------
(* Properties of the identifiers                                           *)

(* C37: start_plugin and stop_plugin are called for a switch message only  *)
(* when the raw identifier of its topic is the plugin id itself, and a     *)
(* message is handled as an entity of a plugin only when its raw           *)
(* identifier is the plugin id, the separator and the entity id.           *)
C37_ExactIdentifier ==
    [][handled' # handled =>
         LET raw_id == RawId(Opened.topic)
             p == Opened.plugin
         IN /\ Opened.invoked \in {"start_plugin", "stop_plugin"} => raw_id = p
            /\ (p # None /\ raw_id # p) => raw_id = p \o <<"_">> \o Opened.entity]_vars

----------------------------------------------------------------------------
(* Properties of the presented items                                       *)

(* C38: an item that a plugin has presented is decided by a press only     *)
(* when the press was handled while the plugin was waiting for the         *)
(* decision of that item, its prompt displayed; a press handled before the *)
(* prompt was published or between two items decides nothing.              *)
C38_PressForDisplayedItem ==
    [][\A i \in RunIds :
          (/\ runs[i].waiting /\ ~runs'[i].waiting
           /\ Len(runs'[i].decisions) > Len(runs[i].decisions)
           /\ runs'[i].decisions[Len(runs'[i].decisions)] # "timeout")
          => ~runs[i].early]_vars

----------------------------------------------------------------------------
(* Properties of the retained messages                                     *)

(* C39: a retained control message of the broker is given to               *)
(* process_message at most once, by the drain of start() or by the         *)
(* processor from the queue of the listener, never by both; a retained     *)
(* main-switch ON message starts its plugin at most once.                  *)
C39_RetainedDispatchedOnce ==
    /\ \A k \in 1..Len(app.redelivered) :
          handled - Len(app.seen) >= k =>
              \A j \in 1..Len(app.seen) : app.seen[j] # app.redelivered[k]
    /\ \A p \in PluginIds : Cardinality({i \in RunIds : runs[i].plugin = p}) <= 1

----------------------------------------------------------------------------
(* Properties of the published switch state                                *)

(* no start_plugin, stop_plugin, entity setup or step of the supervised    *)
(* wrapper is in progress for plugin p                                     *)
Quiescent(p) ==
    /\ \A c \in DOMAIN frame : frame[c].pc # "idle" => frame[c].plugin # p
    /\ ~cur.active
    /\ app.main # "setup"
    /\ \A i \in RunIds : runs[i].plugin = p => runs[i].pc \in {"exec", "done"}
    /\ \A i \in RunIds : runs[i].plugin = p => ~runs[i].cancel

(* C40: when nothing is in progress for a plugin, the state last published *)
(* on its main switch is ON exactly when the plugin is in the running      *)
(* maps; so after the entity setup that follows the drain of the retained  *)
(* messages, and after a plugin that completes as soon as it is started.   *)
C40_SwitchAgreesWithRunning ==
    \A p \in PluginIds :
       Quiescent(p) =>
          (switch_state[p] = ON <=> (p \in DOMAIN running_tasks
                                     /\ p \in DOMAIN running_plugin_instances))

====
